---- MODULE Spec2Model ----
(***************************************************************************)
(* Model of the Resolut front-end: the roadmap/progress logic of           *)
(* RoadmapView (isLessonCompleted, isLessonUnlocked), the quiz state       *)
(* machine of LessonView, and the router and lesson-completion handler of  *)
(* Dashboard (handleLessonComplete and its next-lesson resolution).        *)
(*                                                                         *)
(* JavaScript values are modelled as follows.  A JS object is a record     *)
(* [entries |-> <<[key, value], ...>>] whose entries are in Object.keys    *)
(* order; titles are non-numeric strings, for which that order is the      *)
(* insertion order.  null in an object-typed slot is NullObj; null and     *)
(* undefined in a string-typed slot are the strings Null and Undefined,    *)
(* which are no titles.  A call that may throw returns a record            *)
(* [threw, value].                                                         *)
(***************************************************************************)
EXTENDS Naturals, Integers, Sequences, FiniteSets, TLC

VARIABLES
    \* RoadmapView.jsx (progress-aware roadmap view)
    roadmap,            \* useState(null): the fetched roadmap object
    progress,           \* useState(null): the fetched progress record
    roadmapLoading,     \* useState(true): loading
    roadmapError,       \* useState(null): error (TRUE when an error message is set)
    lessonStatus,       \* what the render shows per (chapter, lesson)
    \* LessonView.jsx
    content,            \* useState(null): the fetched lesson content
    lessonLoading,      \* useState(true): loading
    lessonError,        \* useState(null): error
    mode,               \* useState('reading')
    currentQuestionIdx, \* useState(0)
    selectedOption,     \* useState(null)
    isAnswered,         \* useState(false)
    isCorrect,          \* useState(false)
    \* Dashboard.jsx
    view,               \* useState('dashboard')
    activeTopic,        \* useState(null)
    currentLesson,      \* useState(null)
    completions,        \* handleLessonComplete calls suspended at an await
    \* React
    renderThrew,        \* an exception escaped a render (no error boundary)
    \* the backend
    backendRoadmap,     \* the roadmap stored for the topic (immutable)
    backendProgress,    \* the progress record stored for the topic
    lastEvent,          \* the handler or continuation that ran last, with its arguments
    \* TopicDashboard (RoadmapView.jsx, third component)
    topics,             \* useState([]): the displayed topic list
    topicsLoading,      \* useState(true): loading
    topicsError,        \* useState(null): error (the kind of message, or Null)
    deleteLoading,      \* useState(null): the topic whose deletion is in progress
    fetches,            \* fetchTopics calls suspended at the request or at the retry timer
    deletes,            \* handleDelete calls suspended at the request
    topicRequests,      \* GET /api/topics requests sent since the user last acted
    backendTopics,      \* the topics stored by the backend
    \* LearnTopicFlow.jsx
    step,               \* useState(1)
    flowLoading,        \* useState(false): loading
    flowError,          \* useState(null): error (the message, or Null)
    flowTopic,          \* useState(''): topic
    focusArea,          \* useState('')
    prerequisites,      \* useState([])
    knownPrerequisites, \* useState({}): the indexes answered, with the answer
    files,              \* useState([]): the number of chosen files
    flowCalls,          \* handleFetchPrerequisites / handleSubmitAll calls at an await
    savedRoadmaps,      \* the roadmaps POST /api/roadmaps has stored, per topic
    \* SchedulingModal (RoadmapView.jsx, fourth component)
    autoSettings,       \* useState({auto_schedule: true, trigger_time: "00:00", last_run: null})
    saving,             \* useState(false)
    scheduling,         \* useState(false)
    schedCalls,         \* fetchSettings / saveSettings / handleScheduleNow calls at an await
    backendSettings,    \* the settings held by the scheduling backend
    \* RoadmapView.jsx, check-off version (second component of the file); its
    \* roadmap, loading and error are roadmap, roadmapLoading, roadmapError
    expandedChapters,   \* useState({}): chapter -> expanded
    completedLessons,   \* useState(saved or {}): `${chapter}-${lesson}` -> checked
    curriculumStats,    \* what the render shows: overall and per-chapter progress
    \* history of a learner's walk through a roadmap
    walk                \* the lessons completed so far, in the order taken

roadmapVars == <<roadmap, progress, roadmapLoading, roadmapError, lessonStatus>>
lessonVars == <<content, lessonLoading, lessonError, mode, currentQuestionIdx,
                selectedOption, isAnswered, isCorrect>>
dashVars == <<view, activeTopic, currentLesson, completions>>
backendVars == <<backendRoadmap, backendProgress>>
topicVars == <<topics, topicsLoading, topicsError, deleteLoading, fetches, deletes,
               topicRequests, backendTopics>>
\* the components modelled on their own, outside the lesson flow
createVars == <<step, flowLoading, flowError, flowTopic, focusArea, prerequisites,
                knownPrerequisites, files, flowCalls, savedRoadmaps>>
schedVars == <<autoSettings, saving, scheduling, schedCalls, backendSettings>>
checkOffVars == <<expandedChapters, completedLessons, curriculumStats>>
walkVars == <<walk>>
pageVars == <<topicVars, createVars, schedVars, checkOffVars, walkVars>>
\* the lesson flow: Dashboard's router, RoadmapView, LessonView and their backend
appVars == <<roadmapVars, lessonVars, dashVars, backendVars, renderThrew>>
vars == <<roadmapVars, lessonVars, dashVars, backendVars, renderThrew, lastEvent, pageVars>>

----------------------------------------------------------------------------
(* Bounds of the model *)

MaxChapters == 2
MaxLessons == 2
MaxCompleted == 1
MaxQuestions == 2
MaxOptions == 2
MaxInFlight == 1
MaxTopics == 2
MaxDeletes == 2
MaxPrerequisites == 1
MaxFiles == 1
MaxTimes == 2
MaxSaves == 2
MaxPending == 2

----------------------------------------------------------------------------
(* JavaScript values *)

Null == "null"
Undefined == "undefined"
NullObj == [js_null |-> TRUE]
\* selectedOption === null (option indexes are 0, 1, ...)
NullOption == -1

Return(v) == [threw |-> FALSE, value |-> v]
TypeError == [threw |-> TRUE, value |-> FALSE]

\* Object.keys(obj): the keys in order
ObjectKeys(obj) == [i \in 1..Len(obj.entries) |-> obj.entries[i].key]

\* key in obj
HasKey(obj, k) == \E i \in 1..Len(obj.entries) : obj.entries[i].key = k

\* obj[k], for a key the object has
Get(obj, k) == obj.entries[CHOOSE i \in 1..Len(obj.entries) : obj.entries[i].key = k].value

\* arr[i], 0-based; undefined out of range
At(arr, i) == IF i >= 0 /\ i < Len(arr) THEN arr[i + 1] ELSE Undefined

\* arr.indexOf(x), 0-based; -1 when absent
IndexOf(arr, x) ==
    IF \E i \in 1..Len(arr) : arr[i] = x
    THEN (CHOOSE i \in 1..Len(arr) : arr[i] = x /\ \A j \in 1..(i - 1) : arr[j] # x) - 1
    ELSE -1

\* the template literal `${chapter}: ${lesson}`
LessonId(chapter, lesson) == chapter \o ": " \o lesson

----------------------------------------------------------------------------
(* The bounded universe of roadmaps and progress records *)

ChapterName == <<"A", "B", "C", "D">>
LessonName == <<"L1", "L2", "L3", "L4">>
StaleChapter == "Z"

ChapterPool == {ChapterName[i] : i \in 1..MaxChapters}
LessonPool == {LessonName[i] : i \in 1..MaxLessons}

ChapterObj(list) == [entries |-> [i \in 1..Len(list) |-> [key |-> list[i], value |-> "desc"]]]

\* the n lessons of the i-th chapter: the lesson titles in cyclic order,
\* starting at the i-th, so that chapters share titles and begin differently
LessonsOf(i, n) == [j \in 1..n |-> LessonName[((i + j - 2) % MaxLessons) + 1]]

\* roadmaps: chapters A, B, ... in order, each with 0..MaxLessons lessons
Roadmaps ==
    UNION {{[entries |-> [i \in 1..n |->
                [key |-> ChapterName[i], value |-> ChapterObj(LessonsOf(i, f[i]))]]]
            : f \in [1..n -> 0..MaxLessons]} : n \in 0..MaxChapters}

Statuses == {"not_started", "in_progress"}

LessonIds == {LessonId(c, l) : c \in ChapterPool \cup {StaleChapter}, l \in LessonPool}

\* the current pair of a progress record: a pair of titles (of the roadmap
\* or not), or null and null
CurrentPairs == ((ChapterPool \cup {StaleChapter}) \X LessonPool) \cup {<<Null, Null>>}

ProgressRecords ==
    {[completed_lessons |-> done, current_chapter |-> cur[1], current_lesson |-> cur[2],
      status |-> st] :
        done \in {s \in SUBSET LessonIds : Cardinality(s) <= MaxCompleted},
        cur \in CurrentPairs, st \in Statuses}

\* the (chapter, lesson) pairs of a roadmap, as the render enumerates them
Pairs(rm) ==
    IF rm = NullObj THEN {}
    ELSE {<<c, l>> \in ChapterPool \X LessonPool :
            HasKey(rm, c) /\ HasKey(Get(rm, c), l)}

----------------------------------------------------------------------------
(* RoadmapView.jsx: isLessonCompleted, isLessonUnlocked and the render *)

\* isLessonCompleted looking the lesson up under the key `${chapter}-${lesson}`
isLessonCompleted_DashKey(pr, chapter, lesson) ==
    IF pr = NullObj THEN FALSE
    ELSE (chapter \o "-" \o lesson) \in pr.completed_lessons

isLessonCompleted(pr, chapter, lesson) ==
    IF pr = NullObj THEN FALSE
    ELSE LessonId(chapter, lesson) \in pr.completed_lessons

\* isLessonUnlocked without step 2, the match of the current pair
isLessonUnlocked_NoCurrent(rm, pr, chapter, lesson) ==
    IF isLessonCompleted(pr, chapter, lesson) THEN Return(TRUE)
    ELSE IF pr # NullObj /\ pr.status = "not_started" /\ rm # NullObj
    THEN LET firstChapter == At(ObjectKeys(rm), 0) IN
         IF chapter = firstChapter
         THEN IF ~HasKey(rm, firstChapter) THEN TypeError
              ELSE LET firstLesson == At(ObjectKeys(Get(rm, firstChapter)), 0) IN
                   Return(lesson = firstLesson)
         ELSE Return(FALSE)
    ELSE Return(FALSE)

\* isLessonUnlocked with step 2 matching the current chapter alone
isLessonUnlocked_ChapterOnly(rm, pr, chapter, lesson) ==
    IF isLessonCompleted(pr, chapter, lesson) THEN Return(TRUE)
    ELSE IF pr # NullObj /\ pr.current_chapter = chapter
    THEN Return(TRUE)
    ELSE IF pr # NullObj /\ pr.status = "not_started" /\ rm # NullObj
    THEN LET firstChapter == At(ObjectKeys(rm), 0) IN
         IF chapter = firstChapter
         THEN IF ~HasKey(rm, firstChapter) THEN TypeError
              ELSE LET firstLesson == At(ObjectKeys(Get(rm, firstChapter)), 0) IN
                   Return(lesson = firstLesson)
         ELSE Return(FALSE)
    ELSE Return(FALSE)

isLessonUnlocked(rm, pr, chapter, lesson) ==
    IF isLessonCompleted(pr, chapter, lesson) THEN Return(TRUE)
    ELSE IF pr # NullObj /\ pr.current_chapter = chapter /\ pr.current_lesson = lesson
    THEN Return(TRUE)
    ELSE IF pr # NullObj /\ pr.status = "not_started" /\ rm # NullObj
    THEN LET firstChapter == At(ObjectKeys(rm), 0) IN
         IF chapter = firstChapter
         THEN IF ~HasKey(rm, firstChapter) THEN TypeError
              ELSE LET firstLesson == At(ObjectKeys(Get(rm, firstChapter)), 0) IN
                   Return(lesson = firstLesson)
         ELSE Return(FALSE)
    ELSE Return(FALSE)

\* the icon of a lesson row
LessonIcon(completed, unlocked) ==
    IF completed THEN "CheckCircle2" ELSE IF unlocked THEN "PlayCircle" ELSE "Lock"

\* the rows the render produces: nothing while loading, on error or for an
\* empty roadmap
RenderedPairs(rm, loading, error) ==
    IF loading \/ error \/ rm = NullObj THEN {}
    ELSE IF Len(ObjectKeys(rm)) = 0 THEN {}
    ELSE Pairs(rm)

RenderRows(rm, pr, loading, error) ==
    [p \in RenderedPairs(rm, loading, error) |->
        LET u == isLessonUnlocked(rm, pr, p[1], p[2])
            c == isLessonCompleted(pr, p[1], p[2])
        IN [unlocked |-> u.value, completed |-> c, threw |-> u.threw,
            icon |-> LessonIcon(c, u.value)]]

RenderThrows(rm, pr, loading, error) ==
    \E p \in RenderedPairs(rm, loading, error) : RenderRows(rm, pr, loading, error)[p].threw

----------------------------------------------------------------------------
(* Component state right after mounting (the useState initial values); an   *)
(* unmounted component is kept at these values                              *)

Topics == {"T1"}

NoRows == RenderRows(NullObj, NullObj, TRUE, FALSE)

Event(name, arg) == [name |-> name, arg |-> arg]

RoadmapViewInitial ==
    /\ roadmap = NullObj
    /\ progress = NullObj
    /\ roadmapLoading = TRUE
    /\ roadmapError = FALSE
    /\ lessonStatus = NoRows

LessonViewInitial ==
    /\ content = NullObj
    /\ lessonLoading = TRUE
    /\ lessonError = FALSE
    /\ mode = "reading"
    /\ currentQuestionIdx = 0
    /\ selectedOption = NullOption
    /\ isAnswered = FALSE
    /\ isCorrect = FALSE

TopicDashboardInitial ==
    /\ topics = <<>>
    /\ topicsLoading = TRUE
    /\ topicsError = Null
    /\ deleteLoading = Null

LearnTopicFlowInitial ==
    /\ step = 1
    /\ flowLoading = FALSE
    /\ flowError = Null
    /\ flowTopic = ""
    /\ focusArea = ""
    /\ prerequisites = <<>>
    /\ knownPrerequisites = {}
    /\ files = 0

DefaultSettings == [auto_schedule |-> TRUE, trigger_time |-> "00:00", last_run |-> Null]

SchedulingModalInitial ==
    /\ autoSettings = DefaultSettings
    /\ saving = FALSE
    /\ scheduling = FALSE

CheckOffInitial ==
    /\ expandedChapters = {}
    /\ completedLessons = {}
    /\ curriculumStats = NullObj

\* the components outside the lesson flow, with no request of theirs pending
PagesInitial ==
    /\ TopicDashboardInitial
    /\ fetches = {}
    /\ deletes = <<>>
    /\ topicRequests = 0
    /\ backendTopics = {}
    /\ LearnTopicFlowInitial
    /\ flowCalls = <<>>
    /\ savedRoadmaps = {}
    /\ SchedulingModalInitial
    /\ schedCalls = <<>>
    /\ backendSettings = DefaultSettings
    /\ CheckOffInitial
    /\ walk = <<>>

\* Dashboard.jsx renders RoadmapView when view === 'roadmap' && activeTopic
RoadmapMounted == view = "roadmap" /\ activeTopic # Null /\ ~renderThrew

\* Dashboard.jsx renders LessonView when view === 'lesson' && currentLesson
LessonMounted == view = "lesson" /\ currentLesson # NullObj /\ ~renderThrew

----------------------------------------------------------------------------
(* Dashboard.jsx: the router.  Changing view, activeTopic or currentLesson  *)
(* mounts and unmounts RoadmapView and LessonView; a component that stays   *)
(* mounted keeps its state, a newly mounted one starts from its initial     *)
(* state with its fetch pending (loading = TRUE)                            *)

ResetRoadmapView ==
    /\ roadmap' = NullObj
    /\ progress' = NullObj
    /\ roadmapLoading' = TRUE
    /\ roadmapError' = FALSE
    /\ lessonStatus' = NoRows

ResetLessonView ==
    /\ content' = NullObj
    /\ lessonLoading' = TRUE
    /\ lessonError' = FALSE
    /\ mode' = "reading"
    /\ currentQuestionIdx' = 0
    /\ selectedOption' = NullOption
    /\ isAnswered' = FALSE
    /\ isCorrect' = FALSE

SetRoute(v, topic, lessonRef) ==
    /\ view' = v
    /\ activeTopic' = topic
    /\ currentLesson' = lessonRef
    /\ IF v = "roadmap" /\ topic # Null /\ RoadmapMounted
       THEN UNCHANGED roadmapVars
       ELSE ResetRoadmapView
    /\ IF v = "lesson" /\ lessonRef # NullObj /\ LessonMounted
       THEN UNCHANGED lessonVars
       ELSE ResetLessonView

handleNewTopic ==
    /\ view = "dashboard" /\ ~renderThrew
    /\ SetRoute("create", activeTopic, currentLesson)
    /\ UNCHANGED pageVars
    /\ lastEvent' = Event("handleNewTopic", NullObj)
    /\ UNCHANGED <<completions, backendVars, renderThrew>>

handleViewRoadmap(topic) ==
    /\ view = "dashboard" /\ ~renderThrew
    /\ SetRoute("roadmap", topic, currentLesson)
    /\ UNCHANGED pageVars
    /\ lastEvent' = Event("handleViewRoadmap", NullObj)
    /\ UNCHANGED <<completions, backendVars, renderThrew>>

\* the header logo, "Back to Dashboard" of the create view, onBack of RoadmapView
handleBackToDashboard ==
    /\ ~renderThrew
    /\ view # "dashboard"
    /\ SetRoute("dashboard", Null, NullObj)
    /\ UNCHANGED pageVars
    /\ lastEvent' = Event("handleBackToDashboard", NullObj)
    /\ UNCHANGED <<completions, backendVars, renderThrew>>

\* onBack of LessonView ("Back to Roadmap", "Go Back"); not rendered while loading
handleBackToRoadmap ==
    /\ LessonMounted /\ ~lessonLoading
    /\ SetRoute("roadmap", activeTopic, NullObj)
    /\ UNCHANGED pageVars
    /\ lastEvent' = Event("handleBackToRoadmap", NullObj)
    /\ UNCHANGED <<completions, backendVars, renderThrew>>

\* onLessonSelect of RoadmapView: onClick={() => unlocked && onLessonSelect(...)}
handleStartLesson(chapter, lesson) ==
    /\ RoadmapMounted
    /\ <<chapter, lesson>> \in DOMAIN lessonStatus
    /\ lessonStatus[<<chapter, lesson>>].unlocked
    /\ SetRoute("lesson", activeTopic,
                [topic |-> activeTopic, chapter |-> chapter, lesson |-> lesson])
    /\ UNCHANGED pageVars
    /\ lastEvent' = Event("handleStartLesson", [chapter |-> chapter, lesson |-> lesson])
    /\ UNCHANGED <<completions, backendVars, renderThrew>>

----------------------------------------------------------------------------
(* RoadmapView.jsx: fetchData, the effect run on mount *)

FetchDataSucceeds ==
    /\ RoadmapMounted /\ roadmapLoading
    /\ roadmap' = backendRoadmap
    /\ progress' = backendProgress
    /\ roadmapLoading' = FALSE
    /\ UNCHANGED roadmapError
    /\ lessonStatus' = RenderRows(backendRoadmap, backendProgress, FALSE, roadmapError)
    /\ renderThrew' = RenderThrows(backendRoadmap, backendProgress, FALSE, roadmapError)
    /\ UNCHANGED pageVars
    /\ lastEvent' = Event("FetchDataSucceeds", NullObj)
    /\ UNCHANGED <<lessonVars, dashVars, backendVars>>

FetchDataFails ==
    /\ RoadmapMounted /\ roadmapLoading
    /\ roadmapError' = TRUE
    /\ roadmapLoading' = FALSE
    /\ lessonStatus' = NoRows
    /\ UNCHANGED pageVars
    /\ lastEvent' = Event("FetchDataFails", NullObj)
    /\ UNCHANGED <<roadmap, progress, lessonVars, dashVars, backendVars, renderThrew>>

----------------------------------------------------------------------------
(* LessonView.jsx *)

Questions == [options : {MaxOptions}, correct_option_index : 0..(MaxOptions - 1)]

\* the response of POST /api/lessons/start: any list of questions
Contents ==
    {[questions |-> q] : q \in UNION {[1..n -> Questions] : n \in 0..MaxQuestions}}

fetchLessonSucceeds(c) ==
    /\ LessonMounted /\ lessonLoading
    /\ content' = c
    /\ lessonLoading' = FALSE
    /\ UNCHANGED pageVars
    /\ lastEvent' = Event("fetchLessonSucceeds", NullObj)
    /\ UNCHANGED <<lessonError, mode, currentQuestionIdx, selectedOption, isAnswered, isCorrect>>
    /\ UNCHANGED <<roadmapVars, dashVars, backendVars, renderThrew>>

fetchLessonFails ==
    /\ LessonMounted /\ lessonLoading
    /\ lessonError' = TRUE
    /\ lessonLoading' = FALSE
    /\ UNCHANGED pageVars
    /\ lastEvent' = Event("fetchLessonFails", NullObj)
    /\ UNCHANGED <<content, mode, currentQuestionIdx, selectedOption, isAnswered, isCorrect>>
    /\ UNCHANGED <<roadmapVars, dashVars, backendVars, renderThrew>>

\* past the loading and error returns: the header and the mode's panel are shown
LessonShown == LessonMounted /\ ~lessonLoading /\ ~lessonError /\ content # NullObj

\* the quiz panel reads content.questions[currentQuestionIdx].question
QuizRenderThrows(c, m, idx) == m = "quiz" /\ ~(idx < Len(c.questions))

\* StartQuiz going straight to the completed panel when there is no question
StartQuiz_SkipEmpty ==
    /\ LessonShown /\ mode = "reading"
    /\ mode' = IF Len(content.questions) = 0 THEN "completed" ELSE "quiz"
    /\ UNCHANGED renderThrew
    /\ UNCHANGED pageVars
    /\ lastEvent' = Event("StartQuiz", NullObj)
    /\ UNCHANGED <<content, lessonLoading, lessonError, currentQuestionIdx, selectedOption,
                   isAnswered, isCorrect>>
    /\ UNCHANGED <<roadmapVars, dashVars, backendVars>>

\* "Start Quiz to Complete Lesson": onClick={() => setMode('quiz')}
StartQuiz ==
    /\ LessonShown /\ mode = "reading"
    /\ mode' = "quiz"
    /\ renderThrew' = QuizRenderThrows(content, "quiz", currentQuestionIdx)
    /\ UNCHANGED pageVars
    /\ lastEvent' = Event("StartQuiz", NullObj)
    /\ UNCHANGED <<content, lessonLoading, lessonError, currentQuestionIdx, selectedOption,
                   isAnswered, isCorrect>>
    /\ UNCHANGED <<roadmapVars, dashVars, backendVars>>

\* handleOptionSelect without the isAnswered guard
handleOptionSelect_NoGuard(idx) ==
    /\ LessonShown /\ mode = "quiz"
    /\ idx \in 0..(content.questions[currentQuestionIdx + 1].options - 1)
    /\ selectedOption' = idx
    /\ UNCHANGED pageVars
    /\ lastEvent' = Event("handleOptionSelect", [idx |-> idx])
    /\ UNCHANGED <<content, lessonLoading, lessonError, mode, currentQuestionIdx,
                   isAnswered, isCorrect>>
    /\ UNCHANGED <<roadmapVars, dashVars, backendVars, renderThrew>>

\* handleOptionSelect grading the option as soon as it is selected
handleOptionSelect_Commit(idx) ==
    /\ LessonShown /\ mode = "quiz"
    /\ idx \in 0..(content.questions[currentQuestionIdx + 1].options - 1)
    /\ IF isAnswered
       THEN UNCHANGED <<selectedOption, isCorrect>>
       ELSE /\ selectedOption' = idx
            /\ isCorrect' =
                (idx = content.questions[currentQuestionIdx + 1].correct_option_index)
    /\ UNCHANGED pageVars
    /\ lastEvent' = Event("handleOptionSelect", [idx |-> idx])
    /\ UNCHANGED <<content, lessonLoading, lessonError, mode, currentQuestionIdx,
                   isAnswered>>
    /\ UNCHANGED <<roadmapVars, dashVars, backendVars, renderThrew>>

handleOptionSelect(idx) ==
    /\ LessonShown /\ mode = "quiz"
    /\ idx \in 0..(content.questions[currentQuestionIdx + 1].options - 1)
    /\ IF isAnswered
       THEN UNCHANGED selectedOption
       ELSE selectedOption' = idx
    /\ UNCHANGED pageVars
    /\ lastEvent' = Event("handleOptionSelect", [idx |-> idx])
    /\ UNCHANGED <<content, lessonLoading, lessonError, mode, currentQuestionIdx,
                   isAnswered, isCorrect>>
    /\ UNCHANGED <<roadmapVars, dashVars, backendVars, renderThrew>>

\* handleSubmitAnswer grading the question even when no option is selected
handleSubmitAnswer_NoNullGuard ==
    /\ LessonShown /\ mode = "quiz" /\ ~isAnswered
    /\ LET question == content.questions[currentQuestionIdx + 1]
           correct == selectedOption = question.correct_option_index
       IN /\ isAnswered' = TRUE
          /\ isCorrect' = correct
    /\ UNCHANGED pageVars
    /\ lastEvent' = Event("handleSubmitAnswer", NullObj)
    /\ UNCHANGED <<content, lessonLoading, lessonError, mode, currentQuestionIdx,
                   selectedOption>>
    /\ UNCHANGED <<roadmapVars, dashVars, backendVars, renderThrew>>

\* "Submit Answer" is rendered while the question is not answered; the handler
\* is taken with its own guard, whether or not the button is disabled
handleSubmitAnswer ==
    /\ LessonShown /\ mode = "quiz" /\ ~isAnswered
    /\ IF selectedOption = NullOption
       THEN UNCHANGED <<isAnswered, isCorrect>>
       ELSE LET question == content.questions[currentQuestionIdx + 1]
                correct == selectedOption = question.correct_option_index
            IN /\ isAnswered' = TRUE
               /\ isCorrect' = correct
    /\ UNCHANGED pageVars
    /\ lastEvent' = Event("handleSubmitAnswer", NullObj)
    /\ UNCHANGED <<content, lessonLoading, lessonError, mode, currentQuestionIdx,
                   selectedOption>>
    /\ UNCHANGED <<roadmapVars, dashVars, backendVars, renderThrew>>

\* handleNextQuestion advancing without resetting the per-question state
handleNextQuestion_NoReset ==
    /\ LessonShown /\ mode = "quiz" /\ isAnswered
    /\ IF currentQuestionIdx < Len(content.questions) - 1
       THEN /\ currentQuestionIdx' = currentQuestionIdx + 1
            /\ UNCHANGED <<mode, selectedOption, isAnswered, isCorrect>>
       ELSE /\ mode' = "completed"
            /\ UNCHANGED <<currentQuestionIdx, selectedOption, isAnswered, isCorrect>>
    /\ UNCHANGED pageVars
    /\ lastEvent' = Event("handleNextQuestion", NullObj)
    /\ UNCHANGED <<content, lessonLoading, lessonError>>
    /\ UNCHANGED <<roadmapVars, dashVars, backendVars, renderThrew>>

\* "Next Question" / "Finish Lesson" is rendered once the question is answered
handleNextQuestion ==
    /\ LessonShown /\ mode = "quiz" /\ isAnswered
    /\ IF currentQuestionIdx < Len(content.questions) - 1
       THEN /\ currentQuestionIdx' = currentQuestionIdx + 1
            /\ selectedOption' = NullOption
            /\ isAnswered' = FALSE
            /\ isCorrect' = FALSE
            /\ UNCHANGED mode
       ELSE /\ mode' = "completed"
            /\ UNCHANGED <<currentQuestionIdx, selectedOption, isAnswered, isCorrect>>
    /\ UNCHANGED pageVars
    /\ lastEvent' = Event("handleNextQuestion", NullObj)
    /\ UNCHANGED <<content, lessonLoading, lessonError>>
    /\ UNCHANGED <<roadmapVars, dashVars, backendVars, renderThrew>>

----------------------------------------------------------------------------
(* Dashboard.jsx: handleLessonComplete.  The handler awaits the roadmap     *)
(* (GET /api/roadmaps/:topic), resolves the next lesson, awaits             *)
(* POST /api/lessons/complete and then returns to the roadmap.  A call       *)
(* suspended at an await is an entry of completions; it keeps the            *)
(* activeTopic and currentLesson of the render it was started from.          *)

\* the resolution without the step to the next chapter
NextLessonResolution_NoNextChapter(roadmapResult, chapter, lesson) ==
    LET chapters == ObjectKeys(roadmapResult)
        currentChapIdx == IndexOf(chapters, chapter)
    IN IF currentChapIdx # -1
       THEN LET lessons == ObjectKeys(Get(roadmapResult, chapter))
                currentLessonIdx == IndexOf(lessons, lesson)
            IN IF currentLessonIdx < Len(lessons) - 1
               THEN [next_chapter |-> chapter,
                     next_lesson |-> At(lessons, currentLessonIdx + 1)]
               ELSE [next_chapter |-> chapter, next_lesson |-> lesson]
       ELSE [next_chapter |-> chapter, next_lesson |-> lesson]

\* the next (chapter, lesson) after the completed one
NextLessonResolution(roadmapResult, chapter, lesson) ==
    LET chapters == ObjectKeys(roadmapResult)
        currentChapIdx == IndexOf(chapters, chapter)
    IN IF currentChapIdx # -1
       THEN LET lessons == ObjectKeys(Get(roadmapResult, chapter))
                currentLessonIdx == IndexOf(lessons, lesson)
            IN IF currentLessonIdx < Len(lessons) - 1
               THEN [next_chapter |-> chapter,
                     next_lesson |-> At(lessons, currentLessonIdx + 1)]
               ELSE IF currentChapIdx < Len(chapters) - 1
               THEN LET nextChapter == At(chapters, currentChapIdx + 1)
                        nextChapLessons == ObjectKeys(Get(roadmapResult, nextChapter))
                    IN [next_chapter |-> nextChapter,
                        next_lesson |-> At(nextChapLessons, 0)]
               ELSE [next_chapter |-> chapter, next_lesson |-> lesson]
       ELSE [next_chapter |-> chapter, next_lesson |-> lesson]

\* the body of POST /api/lessons/complete
CompleteBody(topic, lessonRef, roadmapResult) ==
    LET next == NextLessonResolution(roadmapResult, lessonRef.chapter, lessonRef.lesson)
    IN [topic |-> topic,
        current_chapter |-> lessonRef.chapter,
        current_lesson |-> lessonRef.lesson,
        next_chapter |-> next.next_chapter,
        next_lesson |-> next.next_lesson]

RemoveAt(seq, i) == [j \in 1..(Len(seq) - 1) |-> IF j < i THEN seq[j] ELSE seq[j + 1]]

\* the progress record of a topic nothing was completed in
FreshProgress ==
    [completed_lessons |-> {}, current_chapter |-> Null, current_lesson |-> Null,
     status |-> "not_started"]

\* the backend's complete_lesson: the completed identifier joins the
\* completed set and the current pair becomes the next pair of the request
\* (a next_lesson of undefined is not carried by JSON and is stored as null)
BackendCompleteLesson(pr, body) ==
    [completed_lessons |->
        pr.completed_lessons \cup {LessonId(body.current_chapter, body.current_lesson)},
     current_chapter |-> body.next_chapter,
     current_lesson |-> IF body.next_lesson = Undefined THEN Null ELSE body.next_lesson,
     status |-> "in_progress"]

\* handleLessonComplete up to its first await
handleLessonComplete ==
    IF currentLesson = NullObj
    THEN UNCHANGED completions
    ELSE completions' = Append(completions,
            [topic |-> activeTopic, lesson |-> currentLesson, stage |-> "get",
             body |-> NullObj])

\* handleFinish offered in every panel of the lesson, not only the last
handleFinish_AnyMode ==
    /\ LessonShown
    /\ Len(completions) < MaxInFlight
    /\ handleLessonComplete
    /\ UNCHANGED pageVars
    /\ lastEvent' = Event("handleFinish", NullObj)
    /\ UNCHANGED <<view, activeTopic, currentLesson>>
    /\ UNCHANGED <<roadmapVars, lessonVars, backendVars, renderThrew>>

\* LessonView.jsx, "Continue Journey": handleFinish calls onComplete
handleFinish ==
    /\ LessonShown /\ mode = "completed"
    /\ Len(completions) < MaxInFlight
    /\ handleLessonComplete
    /\ UNCHANGED pageVars
    /\ lastEvent' = Event("handleFinish", NullObj)
    /\ UNCHANGED <<view, activeTopic, currentLesson>>
    /\ UNCHANGED <<roadmapVars, lessonVars, backendVars, renderThrew>>

\* the handler returning to the roadmap as soon as the POST is sent
LessonComplete_RoadmapFetched_ReturnsEarly(i) ==
    /\ ~renderThrew
    /\ i \in 1..Len(completions)
    /\ completions[i].stage = "get"
    /\ LET body == CompleteBody(completions[i].topic, completions[i].lesson, backendRoadmap)
       IN /\ completions' = [completions EXCEPT ![i].stage = "post", ![i].body = body]
          /\ UNCHANGED pageVars
          /\ lastEvent' = Event("postLessonComplete", body)
    /\ SetRoute("roadmap", activeTopic, NullObj)
    /\ UNCHANGED <<backendVars, renderThrew>>

\* the roadmap arrives: the next lesson is resolved and the POST is sent
LessonComplete_RoadmapFetched(i) ==
    /\ ~renderThrew
    /\ i \in 1..Len(completions)
    /\ completions[i].stage = "get"
    /\ LET body == CompleteBody(completions[i].topic, completions[i].lesson, backendRoadmap)
       IN /\ completions' = [completions EXCEPT ![i].stage = "post", ![i].body = body]
          /\ UNCHANGED pageVars
          /\ lastEvent' = Event("postLessonComplete", body)
    /\ UNCHANGED <<view, activeTopic, currentLesson>>
    /\ UNCHANGED <<roadmapVars, lessonVars, backendVars, renderThrew>>

\* the roadmap request fails: catch, alert
LessonComplete_RoadmapFails(i) ==
    /\ ~renderThrew
    /\ i \in 1..Len(completions)
    /\ completions[i].stage = "get"
    /\ completions' = RemoveAt(completions, i)
    /\ UNCHANGED pageVars
    /\ lastEvent' = Event("alert", completions[i].lesson)
    /\ UNCHANGED <<view, activeTopic, currentLesson>>
    /\ UNCHANGED <<roadmapVars, lessonVars, backendVars, renderThrew>>

\* the POST succeeds: the backend has recorded the completion, and the
\* handler calls handleBackToRoadmap()
LessonComplete_PostSucceeds(i) ==
    /\ ~renderThrew
    /\ i \in 1..Len(completions)
    /\ completions[i].stage = "post"
    /\ backendProgress' = BackendCompleteLesson(backendProgress, completions[i].body)
    /\ completions' = RemoveAt(completions, i)
    /\ SetRoute("roadmap", activeTopic, NullObj)
    /\ UNCHANGED pageVars
    /\ lastEvent' = Event("lessonCompleted", completions[i].body)
    /\ UNCHANGED <<backendRoadmap, renderThrew>>

\* a failed POST followed by an automatic new attempt
LessonComplete_PostFails_Retries(i) ==
    /\ ~renderThrew
    /\ i \in 1..Len(completions)
    /\ completions[i].stage = "post"
    /\ completions' = [completions EXCEPT ![i].stage = "get", ![i].body = NullObj]
    /\ UNCHANGED pageVars
    /\ lastEvent' = Event("alert", completions[i].lesson)
    /\ UNCHANGED <<view, activeTopic, currentLesson>>
    /\ UNCHANGED <<roadmapVars, lessonVars, backendVars, renderThrew>>

\* the POST fails: catch, alert
LessonComplete_PostFails(i) ==
    /\ ~renderThrew
    /\ i \in 1..Len(completions)
    /\ completions[i].stage = "post"
    /\ completions' = RemoveAt(completions, i)
    /\ UNCHANGED pageVars
    /\ lastEvent' = Event("alert", completions[i].lesson)
    /\ UNCHANGED <<view, activeTopic, currentLesson>>
    /\ UNCHANGED <<roadmapVars, lessonVars, backendVars, renderThrew>>

----------------------------------------------------------------------------
(* The application: Dashboard with RoadmapView and LessonView, against a    *)
(* backend that holds any roadmap and a fresh progress record               *)

Init ==
    /\ backendRoadmap \in Roadmaps
    /\ backendProgress = FreshProgress
    /\ view = "dashboard"
    /\ activeTopic = Null
    /\ currentLesson = NullObj
    /\ completions = <<>>
    /\ RoadmapViewInitial
    /\ LessonViewInitial
    /\ renderThrew = FALSE
    /\ lastEvent = Event("init", NullObj)
    /\ PagesInitial

Next ==
    \/ handleNewTopic
    \/ \E topic \in Topics : handleViewRoadmap(topic)
    \/ handleBackToDashboard
    \/ handleBackToRoadmap
    \/ \E chapter \in ChapterPool, lesson \in LessonPool : handleStartLesson(chapter, lesson)
    \/ FetchDataSucceeds
    \/ FetchDataFails
    \/ \E c \in Contents : fetchLessonSucceeds(c)
    \/ fetchLessonFails
    \/ StartQuiz
    \/ \E idx \in 0..(MaxOptions - 1) : handleOptionSelect(idx)
    \/ handleSubmitAnswer
    \/ handleNextQuestion
    \/ handleFinish
    \/ \E i \in 1..MaxInFlight : LessonComplete_RoadmapFetched(i)
    \/ \E i \in 1..MaxInFlight : LessonComplete_RoadmapFails(i)
    \/ \E i \in 1..MaxInFlight : LessonComplete_PostSucceeds(i)
    \/ \E i \in 1..MaxInFlight : LessonComplete_PostFails(i)

Spec == Init /\ [][Next]_vars

----------------------------------------------------------------------------
(* One lesson session: LessonView from its mount by handleStartLesson to    *)
(* its unmount, with the handlers of its onBack and onComplete props         *)

OneLessonRoadmap ==
    [entries |-> <<[key |-> ChapterName[1], value |-> ChapterObj(LessonsOf(1, 1))]>>]

InitLesson ==
    /\ backendRoadmap = OneLessonRoadmap
    /\ backendProgress = FreshProgress
    /\ view = "lesson"
    /\ activeTopic \in Topics
    /\ currentLesson = [topic |-> activeTopic, chapter |-> ChapterName[1],
                        lesson |-> LessonsOf(1, 1)[1]]
    /\ completions = <<>>
    /\ RoadmapViewInitial
    /\ LessonViewInitial
    /\ renderThrew = FALSE
    /\ lastEvent = Event("handleStartLesson",
                         [chapter |-> ChapterName[1], lesson |-> LessonsOf(1, 1)[1]])
    /\ PagesInitial

NextLesson ==
    \/ \E c \in Contents : fetchLessonSucceeds(c)
    \/ fetchLessonFails
    \/ StartQuiz
    \/ \E idx \in 0..(MaxOptions - 1) : handleOptionSelect(idx)
    \/ handleSubmitAnswer
    \/ handleNextQuestion
    \/ handleFinish
    \/ handleBackToRoadmap
    \/ \E i \in 1..MaxInFlight : LessonComplete_RoadmapFetched(i)
    \/ \E i \in 1..MaxInFlight : LessonComplete_RoadmapFails(i)
    \/ \E i \in 1..MaxInFlight : LessonComplete_PostSucceeds(i)
    \/ \E i \in 1..MaxInFlight : LessonComplete_PostFails(i)

SpecLesson == InitLesson /\ [][NextLesson]_vars

----------------------------------------------------------------------------
(* Lesson completion on its own: any lesson of any roadmap, designated by   *)
(* the progress record, has been taken to the "Lesson Completed!" panel      *)

FinishedContent == [questions |-> <<[options |-> MaxOptions, correct_option_index |-> 0]>>]

InitComplete ==
    /\ backendRoadmap \in Roadmaps
    /\ activeTopic \in Topics
    /\ \E p \in Pairs(backendRoadmap) :
        /\ currentLesson = [topic |-> activeTopic, chapter |-> p[1], lesson |-> p[2]]
        /\ backendProgress = [completed_lessons |-> {}, current_chapter |-> p[1],
                              current_lesson |-> p[2], status |-> "in_progress"]
    /\ view = "lesson"
    /\ completions = <<>>
    /\ RoadmapViewInitial
    /\ content = FinishedContent
    /\ lessonLoading = FALSE
    /\ lessonError = FALSE
    /\ mode = "completed"
    /\ currentQuestionIdx = 0
    /\ selectedOption = 0
    /\ isAnswered = TRUE
    /\ isCorrect = TRUE
    /\ renderThrew = FALSE
    /\ lastEvent = Event("handleNextQuestion", NullObj)
    /\ PagesInitial

NextComplete ==
    \/ handleFinish
    \/ handleBackToRoadmap
    \/ handleBackToDashboard
    \/ \E i \in 1..MaxInFlight : LessonComplete_RoadmapFetched(i)
    \/ \E i \in 1..MaxInFlight : LessonComplete_RoadmapFails(i)
    \/ \E i \in 1..MaxInFlight : LessonComplete_PostSucceeds(i)
    \/ \E i \in 1..MaxInFlight : LessonComplete_PostFails(i)

SpecComplete == InitComplete /\ [][NextComplete]_vars

----------------------------------------------------------------------------
(* The unlock computation on its own: any roadmap with any progress record  *)
(* (present or null, consistent or stale) is handed to the render           *)

InitUnlock ==
    /\ roadmap \in Roadmaps
    /\ progress \in ProgressRecords \cup {NullObj}
    /\ roadmapLoading = FALSE
    /\ roadmapError = FALSE
    /\ lessonStatus = NoRows
    /\ LessonViewInitial
    /\ view = "roadmap"
    /\ activeTopic \in Topics
    /\ currentLesson = NullObj
    /\ completions = <<>>
    /\ renderThrew = FALSE
    /\ backendRoadmap = roadmap
    /\ backendProgress = progress
    /\ lastEvent = Event("init", NullObj)
    /\ PagesInitial

\* Object.values(roadmap).reduce((acc, curr) => acc + Object.keys(curr).length, 0)
TotalLessons(rm) ==
    LET RECURSIVE Sum(_)
        Sum(n) == IF n = 0 THEN 0 ELSE Sum(n - 1) + Len(rm.entries[n].value.entries)
    IN Sum(Len(rm.entries))

\* progress?.completed_lessons?.length || 0
CompletedCount(pr) == IF pr = NullObj THEN 0 ELSE Cardinality(pr.completed_lessons)

Max(a, b) == IF a >= b THEN a ELSE b

\* Math.round(x / y * 100) for x >= 0, y > 0: halves round up
RoundPercent(x, y) == (2 * 100 * x + y) \div (2 * y)

\* Math.round((completedCount / Math.max(1, totalLessons)) * 100)
ProgressPercent(rm, pr) == RoundPercent(CompletedCount(pr), Max(1, TotalLessons(rm)))

\* what the header of the chapter list shows (nothing when the render
\* returned early)
RenderHeader(rm, pr, loading, error) ==
    IF loading \/ error \/ rm = NullObj \/ Len(rm.entries) = 0
    THEN NullObj
    ELSE [progressPercent |-> ProgressPercent(rm, pr)]

\* the render of the chapter list: the overall progress, and for every
\* lesson row its unlocked and completed flags
RenderLessons ==
    /\ RoadmapMounted
    /\ lastEvent.name = "init"
    /\ lessonStatus' = RenderRows(roadmap, progress, roadmapLoading, roadmapError)
    /\ renderThrew' = RenderThrows(roadmap, progress, roadmapLoading, roadmapError)
    /\ UNCHANGED pageVars
    /\ lastEvent' = Event("render", RenderHeader(roadmap, progress, roadmapLoading, roadmapError))
    /\ UNCHANGED <<roadmap, progress, roadmapLoading, roadmapError>>
    /\ UNCHANGED <<lessonVars, dashVars, backendVars>>

NextUnlock == RenderLessons

SpecUnlock == InitUnlock /\ [][NextUnlock]_vars

----------------------------------------------------------------------------
(* Properties of the unlock computation (checked under SpecUnlock) *)

Rendered == lastEvent.name = "render"

\* the first lesson of the first chapter, when there is one
HasFirstLesson(rm) ==
    /\ Len(rm.entries) >= 1
    /\ Len(rm.entries[1].value.entries) >= 1

FirstLessonPair(rm) == <<rm.entries[1].key, rm.entries[1].value.entries[1].key>>

IsFirstLesson(rm, p) == HasFirstLesson(rm) /\ p = FirstLessonPair(rm)

IdInCompletedSet(pr, p) ==
    pr # NullObj /\ (p[1] \o ": " \o p[2]) \in pr.completed_lessons

IsCurrentPair(pr, p) ==
    pr # NullObj /\ pr.current_chapter = p[1] /\ pr.current_lesson = p[2]

\* no progress exists: nothing completed and no current pair designated
NoProgressExists(pr) ==
    /\ pr # NullObj
    /\ pr.completed_lessons = {}
    /\ pr.current_chapter = Null
    /\ pr.current_lesson = Null

\* C2: a non-completed lesson is unlocked exactly when it is the current
\* pair, or when status is not_started, no progress exists and it is the
\* first lesson of the first chapter; every other non-completed lesson is
\* locked.
C2_UnlockedExactly ==
    Rendered =>
        \A p \in Pairs(roadmap) :
            ~IdInCompletedSet(progress, p) =>
                (lessonStatus[p].unlocked <=>
                    \/ IsCurrentPair(progress, p)
                    \/ /\ progress # NullObj
                       /\ progress.status = "not_started"
                       /\ NoProgressExists(progress)
                       /\ IsFirstLesson(roadmap, p))

\* C3: for a roadmap with at least one chapter and one lesson and an empty
\* progress record with status not_started, exactly one lesson is unlocked,
\* the first lesson of the first chapter.
C3_ExactlyFirstUnlocked ==
    (/\ Rendered
     /\ Pairs(roadmap) # {}
     /\ NoProgressExists(progress)
     /\ progress.status = "not_started")
    => /\ Cardinality({p \in Pairs(roadmap) : lessonStatus[p].unlocked}) = 1
       /\ \A p \in Pairs(roadmap) : lessonStatus[p].unlocked <=> IsFirstLesson(roadmap, p)

\* C4: the current pair of the progress record, when it exists in the
\* roadmap, is unlocked, whatever the status and wherever it is.
C4_CurrentPairUnlocked ==
    Rendered =>
        \A p \in Pairs(roadmap) :
            IsCurrentPair(progress, p) =>
                /\ lessonStatus[p].unlocked
                /\ lessonStatus[p].icon # "Lock"

C4_Witness ==
    /\ Rendered
    /\ \E p \in Pairs(roadmap) :
        /\ IsCurrentPair(progress, p)
        /\ ~IsFirstLesson(roadmap, p)
        /\ ~IdInCompletedSet(progress, p)
        /\ progress.status = "in_progress"
        /\ lessonStatus[p].unlocked

\* C5: a lesson whose identifier "chapter: lesson" is in the completed set
\* is reported completed and is never shown as locked, whatever the current
\* pair and the status are.
C5_CompletedReported ==
    Rendered =>
        \A p \in Pairs(roadmap) :
            IdInCompletedSet(progress, p) =>
                /\ lessonStatus[p].completed
                /\ lessonStatus[p].unlocked
                /\ lessonStatus[p].icon = "CheckCircle2"

C5_Witness ==
    /\ Rendered
    /\ \E p \in Pairs(roadmap) :
        /\ IdInCompletedSet(progress, p)
        /\ ~IsCurrentPair(progress, p)
        /\ ~IsFirstLesson(roadmap, p)
        /\ progress.status = "in_progress"
        /\ lessonStatus[p].completed

\* stale progress: the current chapter is set and the current pair is no
\* (chapter, lesson) of the roadmap
StaleProgress(rm, pr) ==
    /\ pr # NullObj
    /\ pr.current_chapter # Null
    /\ <<pr.current_chapter, pr.current_lesson>> \notin Pairs(rm)

----------------------------------------------------------------------------
(* Next-lesson resolution (checked under SpecComplete) *)

\* positions in the roadmap, 1-based, of a chapter and of a lesson in it
ChapterPos(rm, c) == CHOOSE i \in 1..Len(rm.entries) : rm.entries[i].key = c

LessonPos(rm, c, l) ==
    LET ls == rm.entries[ChapterPos(rm, c)].value.entries
    IN CHOOSE j \in 1..Len(ls) : ls[j].key = l

\* the first lesson of the chapter at position i (undefined when it has none)
FirstLessonAt(rm, i) ==
    LET ls == rm.entries[i].value.entries
    IN IF Len(ls) >= 1 THEN ls[1].key ELSE Undefined

\* the pair the claim names for the completed pair (c, l)
ExpectedNext(rm, c, l) ==
    LET i == ChapterPos(rm, c)
        j == LessonPos(rm, c, l)
        ls == rm.entries[i].value.entries
    IN IF j < Len(ls) THEN <<c, ls[j + 1].key>>
       ELSE IF i < Len(rm.entries) THEN <<rm.entries[i + 1].key, FirstLessonAt(rm, i + 1)>>
       ELSE <<c, l>>

\* C1: the completion request for a pair (c, l) of the roadmap names as next
\* the lesson after l in c, else the first lesson of the chapter after c,
\* else (c, l) itself.
C1_NextLessonResolved ==
    lastEvent.name = "postLessonComplete" =>
        LET b == lastEvent.arg IN
        <<b.current_chapter, b.current_lesson>> \in Pairs(backendRoadmap) =>
            <<b.next_chapter, b.next_lesson>> =
                ExpectedNext(backendRoadmap, b.current_chapter, b.current_lesson)

\* the request sent for the last lesson of a chapter that another chapter
\* follows: A:[L1,L2], B:[L2], A/L2 -> B/L2
C1_Witness ==
    /\ lastEvent.name = "postLessonComplete"
    /\ Len(backendRoadmap.entries) = 2
    /\ Len(backendRoadmap.entries[1].value.entries) = 2
    /\ lastEvent.arg.current_chapter = backendRoadmap.entries[1].key
    /\ lastEvent.arg.current_lesson = backendRoadmap.entries[1].value.entries[2].key
    /\ lastEvent.arg.next_chapter = backendRoadmap.entries[2].key
    /\ lastEvent.arg.next_lesson # Undefined

----------------------------------------------------------------------------
(* The quiz state machine (checked under SpecLesson) *)

ModeSteps == {<<"reading", "quiz">>, <<"quiz", "completed">>}

\* C7: a session starts in mode reading, and its mode only moves
\* reading -> quiz -> completed.
C7_ModeOrder ==
    /\ (LessonMounted => mode = "reading")
    /\ [][/\ mode' \in {"reading", "quiz", "completed"}
          /\ (~LessonMounted /\ LessonMounted') => mode' = "reading"
          /\ (view = "lesson" /\ view' = "lesson") =>
                (mode' = mode \/ <<mode, mode'>> \in ModeSteps)]_vars

C7_Witness ==
    /\ LessonMounted
    /\ mode = "completed"
    /\ Len(content.questions) = MaxQuestions

\* C8: selecting option i and then submitting sets isAnswered and makes
\* isCorrect (i = correct_option_index); selecting an option after the
\* question is answered changes nothing.
C8_SubmitAndLateSelect ==
    [][/\ (lastEvent.name = "handleOptionSelect" /\ lastEvent'.name = "handleSubmitAnswer")
            => /\ isAnswered'
               /\ isCorrect' <=>
                    (lastEvent.arg.idx =
                        content.questions[currentQuestionIdx + 1].correct_option_index)
               /\ selectedOption' = lastEvent.arg.idx
       /\ (lastEvent'.name = "handleOptionSelect" /\ isAnswered)
            => UNCHANGED <<selectedOption, isAnswered, isCorrect>>]_vars

\* a wrong answer was submitted and another option was selected afterwards
C8_Witness ==
    /\ lastEvent.name = "handleOptionSelect"
    /\ isAnswered
    /\ ~isCorrect
    /\ lastEvent.arg.idx # selectedOption

\* C9: advancing from an answered question that is not the last increases
\* the index by one and resets selectedOption, isAnswered, isCorrect to null,
\* false, false; from the last one the index stays and the mode becomes
\* completed.
C9_Advance ==
    [][(lastEvent'.name = "handleNextQuestion" /\ isAnswered) =>
            IF currentQuestionIdx + 1 < Len(content.questions)
            THEN /\ currentQuestionIdx' = currentQuestionIdx + 1
                 /\ selectedOption' = NullOption
                 /\ isAnswered' = FALSE
                 /\ isCorrect' = FALSE
                 /\ mode' = "quiz"
            ELSE /\ currentQuestionIdx' = currentQuestionIdx
                 /\ mode' = "completed"]_vars

\* the second question was reached after a correct answer to the first
C9_Witness ==
    /\ lastEvent.name = "handleNextQuestion"
    /\ mode = "quiz"
    /\ currentQuestionIdx = 1
    /\ selectedOption = NullOption
    /\ ~isAnswered

\* C10: an answered question keeps its selection and correctness until the
\* advance; before submission, choosing another option only replaces the
\* pending selection.
C10_NoSecondAnswer ==
    [][/\ (isAnswered /\ view' = "lesson" /\ lastEvent'.name # "handleNextQuestion")
            => UNCHANGED <<currentQuestionIdx, selectedOption, isAnswered, isCorrect>>
       /\ (lastEvent'.name = "handleOptionSelect" /\ ~isAnswered)
            => /\ selectedOption' = lastEvent'.arg.idx
               /\ isAnswered' = FALSE
               /\ isCorrect' = isCorrect]_vars

\* on the second question, a pending selection was replaced by another
C10_Witness ==
    /\ lastEvent.name = "handleOptionSelect"
    /\ ~isAnswered
    /\ currentQuestionIdx = 1
    /\ selectedOption = lastEvent.arg.idx
    /\ selectedOption = 1

\* C11: submitting while no option is selected changes neither isAnswered,
\* isCorrect, the question index nor the mode.
C11_SubmitWithoutSelection ==
    [][(lastEvent'.name = "handleSubmitAnswer" /\ selectedOption = NullOption)
            => UNCHANGED <<isAnswered, isCorrect, currentQuestionIdx, mode, selectedOption>>]_vars

\* Submit Answer was pressed on the second question with nothing selected
C11_Witness ==
    /\ lastEvent.name = "handleSubmitAnswer"
    /\ mode = "quiz"
    /\ currentQuestionIdx = 1
    /\ selectedOption = NullOption
    /\ ~isAnswered

----------------------------------------------------------------------------
(* Lesson completion (checked under SpecComplete) *)

UserEvents == {"handleFinish", "handleBackToRoadmap", "handleBackToDashboard"}

\* C12: the completion request carries the completed pair as current pair
\* and the resolved next pair as next pair; the view and the current lesson
\* are left alone when the session is finished and when the request is
\* sent, and the view becomes the roadmap with the current lesson cleared
\* in the step in which the request succeeds.
C12_RequestThenReturn ==
    [][/\ lastEvent'.name = "handleFinish" =>
            /\ UNCHANGED <<view, activeTopic, currentLesson, backendProgress>>
            /\ Len(completions') = Len(completions) + 1
            /\ completions'[Len(completions')].lesson = currentLesson
       /\ lastEvent'.name = "postLessonComplete" =>
            /\ UNCHANGED <<view, activeTopic, currentLesson, backendProgress>>
            /\ \E i \in 1..Len(completions) :
                /\ completions[i].stage = "get"
                /\ lastEvent'.arg.topic = completions[i].topic
                /\ lastEvent'.arg.current_chapter = completions[i].lesson.chapter
                /\ lastEvent'.arg.current_lesson = completions[i].lesson.lesson
                /\ <<lastEvent'.arg.next_chapter, lastEvent'.arg.next_lesson>> =
                        ExpectedNext(backendRoadmap, completions[i].lesson.chapter,
                                     completions[i].lesson.lesson)
       /\ lastEvent'.name = "lessonCompleted" =>
            /\ \E i \in 1..Len(completions) :
                /\ completions[i].stage = "post"
                /\ completions[i].body = lastEvent'.arg
            /\ view' = "roadmap"
            /\ currentLesson' = NullObj
            /\ LessonId(lastEvent'.arg.current_chapter, lastEvent'.arg.current_lesson)
                    \in backendProgress'.completed_lessons
       /\ (view = "lesson" /\ view' = "roadmap") =>
            lastEvent'.name \in {"lessonCompleted", "handleBackToRoadmap"}]_vars

\* the request for the first lesson of a two-lesson chapter succeeded while
\* its lesson was still shown
C12_Witness ==
    /\ lastEvent.name = "lessonCompleted"
    /\ view = "roadmap"
    /\ currentLesson = NullObj
    /\ activeTopic # Null
    /\ lastEvent.arg.next_chapter = lastEvent.arg.current_chapter
    /\ lastEvent.arg.next_lesson # lastEvent.arg.current_lesson
    /\ backendProgress.current_lesson = lastEvent.arg.next_lesson
    /\ LessonId(lastEvent.arg.current_chapter, lastEvent.arg.current_lesson)
            \in backendProgress.completed_lessons

\* C18: a failed roadmap fetch or completion request ends the call: an
\* alert is shown, the call is dropped, nothing is recorded, view, active
\* topic, current lesson and the lesson's panel are as before, and nothing
\* but a user action follows.
C18_FailureIsTerminal ==
    [][/\ lastEvent'.name = "alert" =>
            /\ UNCHANGED <<view, activeTopic, currentLesson, backendProgress>>
            /\ UNCHANGED lessonVars
            /\ Len(completions') = Len(completions) - 1
            /\ \A j \in 1..Len(completions') : completions'[j] \in
                    {completions[k] : k \in 1..Len(completions)}
            /\ (view = "lesson" => LessonShown' /\ mode' = "completed")
       /\ (lastEvent.name = "alert" /\ completions = <<>>) =>
            lastEvent'.name \in UserEvents]_vars

\* the completion request failed while the lesson was shown
C18_Witness ==
    /\ lastEvent.name = "alert"
    /\ view = "lesson"
    /\ currentLesson # NullObj
    /\ mode = "completed"
    /\ completions = <<>>
    /\ backendProgress.completed_lessons = {}

----------------------------------------------------------------------------
(* The progress record in the application (checked under Spec) *)

ViewingEvents ==
    {"handleNewTopic", "handleViewRoadmap", "handleBackToDashboard", "handleBackToRoadmap",
     "handleStartLesson", "FetchDataSucceeds", "FetchDataFails", "fetchLessonSucceeds",
     "fetchLessonFails", "StartQuiz", "handleOptionSelect", "handleSubmitAnswer",
     "handleNextQuestion"}

\* C13: the stored progress record changes only when a completion request
\* succeeds; a completion call starts only from a lesson session in mode
\* completed, whose last question is answered and whose questions were
\* reached one after the other, each after the one before was answered; no
\* step of viewing, reading, answering or going back starts a call, sends
\* a request or changes the record.
C13_OnlyCompletionMutates ==
    [][/\ backendProgress' # backendProgress => lastEvent'.name = "lessonCompleted"
       /\ Len(completions') > Len(completions) =>
            /\ lastEvent'.name = "handleFinish"
            /\ LessonShown
            /\ mode = "completed"
            /\ isAnswered
            /\ currentQuestionIdx = Len(content.questions) - 1
            /\ completions'[Len(completions')].lesson = currentLesson
            /\ completions'[Len(completions')].stage = "get"
       /\ lastEvent'.name \in {"postLessonComplete", "lessonCompleted"} =>
            \E i \in 1..Len(completions) :
                /\ completions[i].lesson.chapter = lastEvent'.arg.current_chapter
                /\ completions[i].lesson.lesson = lastEvent'.arg.current_lesson
       /\ lastEvent'.name \in ViewingEvents => UNCHANGED <<backendProgress, completions>>
       /\ (LessonShown /\ LessonShown' /\ currentQuestionIdx' # currentQuestionIdx) =>
            /\ isAnswered
            /\ currentQuestionIdx' = currentQuestionIdx + 1]_vars

\* the request for a lesson with the most questions is sent from its
\* completed panel
C13_Witness ==
    /\ lastEvent.name = "postLessonComplete"
    /\ LessonShown
    /\ mode = "completed"
    /\ Len(content.questions) = MaxQuestions
    /\ currentLesson.chapter = lastEvent.arg.current_chapter
    /\ currentLesson.lesson = lastEvent.arg.current_lesson

----------------------------------------------------------------------------
(* TopicDashboard (RoadmapView.jsx): the topic list, its fetch with the      *)
(* automatic retry, and topic deletion.  A fetchTopics call keeps the         *)
(* retryCount it was called with and the value of loading of the render its   *)
(* closure was created in: the call of the mount effect and the calls its     *)
(* timers make come from the first render (loading = true), a call of the     *)
(* Retry button from the render that showed the button.  A handleDelete call  *)
(* keeps the topics of the render it was started from.                        *)

TopicName == <<"T1", "T2", "T3">>
TopicPool == {TopicName[i] : i \in 1..MaxTopics}

\* if (isBackendDown && retryCount < 5)
MaxRetries == 5
\* setTimeout(() => fetchTopics(retryCount + 1), 2000)
RetryDelayMs == 2000

\* an array of topics in the backend's order
TopicList(set) ==
    LET idx == {i \in 1..MaxTopics : TopicName[i] \in set}
        Rank(i) == Cardinality({j \in idx : j <= i})
    IN [k \in 1..Cardinality(idx) |-> TopicName[CHOOSE i \in idx : Rank(i) = k]]

\* topics.filter(t => t !== topic)
FilterOut(list, topic) == SelectSeq(list, LAMBDA t : t # topic)

InList(list, topic) == \E i \in 1..Len(list) : list[i] = topic

\* past "if (loading && topics.length === 0) return <loading indicator>"
TopicsShown == ~(topicsLoading /\ topics = <<>>)

\* the error banner with its Retry button
BannerShown == TopicsShown /\ topicsError # Null

\* err.code === 'ERR_NETWORK' || ... || [500, 502, 503].includes(status)
FailureKinds == {"backend_down", "other"}

\* finally { if (retryCount === 0 || !loading) setLoading(false) }
LoadingAfterFinally(f) == IF f.retryCount = 0 \/ ~f.loading THEN FALSE ELSE topicsLoading

\* fetchTopics(retryCount) up to its await: setLoading(true), setError(null),
\* GET /api/topics
fetchTopics(retryCount, closureLoading) ==
    /\ topicsLoading' = TRUE
    /\ topicsError' = Null
    /\ fetches' = fetches \cup {[retryCount |-> retryCount, loading |-> closureLoading,
                                 stage |-> "request", delay |-> 0]}

\* the response arrives: response.data?.topics is the list, or no array
fetchTopics_Succeeds(f, isArray) ==
    /\ f \in fetches /\ f.stage = "request"
    /\ topics' = IF isArray THEN TopicList(backendTopics) ELSE <<>>
    /\ topicsError' = Null
    /\ topicsLoading' = LoadingAfterFinally(f)
    /\ fetches' = fetches \ {f}
    /\ lastEvent' = Event("fetchTopicsSucceeded", f)
    /\ UNCHANGED <<deleteLoading, deletes, topicRequests, backendTopics>>
    /\ UNCHANGED <<appVars, createVars, schedVars, checkOffVars, walkVars>>

\* the request fails retrying forever
fetchTopics_Fails_AlwaysRetries(f, kind) ==
    /\ f \in fetches /\ f.stage = "request"
    /\ kind \in FailureKinds
    /\ fetches' = (fetches \ {f}) \cup {[f EXCEPT !.stage = "timer", !.delay = RetryDelayMs]}
    /\ UNCHANGED <<topics, topicsError>>
    /\ topicsLoading' = LoadingAfterFinally(f)
    /\ lastEvent' = Event("fetchTopicsFailed", [call |-> f, kind |-> kind])
    /\ UNCHANGED <<deleteLoading, deletes, topicRequests, backendTopics>>
    /\ UNCHANGED <<appVars, createVars, schedVars, checkOffVars, walkVars>>

\* the request fails: a retry is scheduled, or the error is shown
fetchTopics_Fails(f, kind) ==
    /\ f \in fetches /\ f.stage = "request"
    /\ kind \in FailureKinds
    /\ IF kind = "backend_down" /\ f.retryCount < MaxRetries
       THEN /\ fetches' = (fetches \ {f}) \cup
                    {[f EXCEPT !.stage = "timer", !.delay = RetryDelayMs]}
            /\ UNCHANGED <<topics, topicsError>>
       ELSE /\ fetches' = fetches \ {f}
            /\ topicsError' = kind
            /\ topics' = <<>>
    /\ topicsLoading' = LoadingAfterFinally(f)
    /\ lastEvent' = Event("fetchTopicsFailed", [call |-> f, kind |-> kind])
    /\ UNCHANGED <<deleteLoading, deletes, topicRequests, backendTopics>>
    /\ UNCHANGED <<appVars, createVars, schedVars, checkOffVars, walkVars>>

\* the timer fires: fetchTopics(retryCount + 1) of the same closure
RetryTimerFires(f) ==
    /\ f \in fetches /\ f.stage = "timer"
    /\ topicsLoading' = TRUE
    /\ topicsError' = Null
    /\ fetches' = (fetches \ {f}) \cup
            {[retryCount |-> f.retryCount + 1, loading |-> f.loading,
              stage |-> "request", delay |-> 0]}
    /\ topicRequests' = topicRequests + 1
    /\ lastEvent' = Event("retryTimer", f)
    /\ UNCHANGED <<topics, deleteLoading, deletes, backendTopics>>
    /\ UNCHANGED <<appVars, createVars, schedVars, checkOffVars, walkVars>>

\* the Retry button of the error banner: onClick={() => fetchTopics()}
ClickRetry ==
    /\ BannerShown
    /\ fetchTopics(0, topicsLoading)
    /\ topicRequests' = 1
    /\ lastEvent' = Event("ClickRetry", NullObj)
    /\ UNCHANGED <<topics, deleteLoading, deletes, backendTopics>>
    /\ UNCHANGED <<appVars, createVars, schedVars, checkOffVars, walkVars>>

\* handleDelete sending the request without asking
handleDelete_NoConfirm(topic, confirmed) ==
    /\ TopicsShown
    /\ InList(topics, topic)
    /\ deleteLoading # topic
    /\ Len(deletes) < MaxDeletes
    /\ deleteLoading' = topic
    /\ deletes' = Append(deletes, [topic |-> topic, topics |-> topics])
    /\ UNCHANGED <<topics, topicsLoading, topicsError, fetches, topicRequests, backendTopics>>
    /\ lastEvent' = Event("handleDelete", [topic |-> topic, confirmed |-> confirmed])
    /\ UNCHANGED <<appVars, createVars, schedVars, checkOffVars, walkVars>>

\* the delete button of a topic card (disabled while deleteLoading === topic);
\* confirmed is the answer to window.confirm
handleDelete(topic, confirmed) ==
    /\ TopicsShown
    /\ InList(topics, topic)
    /\ deleteLoading # topic
    /\ Len(deletes) < MaxDeletes
    /\ IF ~confirmed
       THEN UNCHANGED <<deleteLoading, deletes>>
       ELSE /\ deleteLoading' = topic
            /\ deletes' = Append(deletes, [topic |-> topic, topics |-> topics])
    /\ UNCHANGED <<topics, topicsLoading, topicsError, fetches, topicRequests, backendTopics>>
    /\ lastEvent' = Event("handleDelete", [topic |-> topic, confirmed |-> confirmed])
    /\ UNCHANGED <<appVars, createVars, schedVars, checkOffVars, walkVars>>

\* the delete request succeeds leaving the marker set
handleDelete_Succeeds_KeepsMarker(i) ==
    /\ i \in 1..Len(deletes)
    /\ backendTopics' = backendTopics \ {deletes[i].topic}
    /\ topics' = FilterOut(deletes[i].topics, deletes[i].topic)
    /\ UNCHANGED deleteLoading
    /\ deletes' = RemoveAt(deletes, i)
    /\ UNCHANGED <<topicsLoading, topicsError, fetches, topicRequests>>
    /\ lastEvent' = Event("topicDeleted", deletes[i])
    /\ UNCHANGED <<appVars, createVars, schedVars, checkOffVars, walkVars>>

\* the delete request succeeds: setTopics(topics.filter(...)) with the topics
\* of the call's closure, then setDeleteLoading(null)
handleDelete_Succeeds(i) ==
    /\ i \in 1..Len(deletes)
    /\ backendTopics' = backendTopics \ {deletes[i].topic}
    /\ topics' = FilterOut(deletes[i].topics, deletes[i].topic)
    /\ deleteLoading' = Null
    /\ deletes' = RemoveAt(deletes, i)
    /\ UNCHANGED <<topicsLoading, topicsError, fetches, topicRequests>>
    /\ lastEvent' = Event("topicDeleted", deletes[i])
    /\ UNCHANGED <<appVars, createVars, schedVars, checkOffVars, walkVars>>

\* the delete request fails: alert, then setDeleteLoading(null)
handleDelete_Fails(i) ==
    /\ i \in 1..Len(deletes)
    /\ deleteLoading' = Null
    /\ deletes' = RemoveAt(deletes, i)
    /\ UNCHANGED <<topics, topicsLoading, topicsError, fetches, topicRequests, backendTopics>>
    /\ lastEvent' = Event("alertDeleteFailed", deletes[i])
    /\ UNCHANGED <<appVars, createVars, schedVars, checkOffVars, walkVars>>

\* TopicDashboard right after its mount: the effect has called fetchTopics()
InitTopics ==
    /\ backendTopics \in SUBSET TopicPool
    /\ TopicDashboardInitial
    /\ fetches = {[retryCount |-> 0, loading |-> TRUE, stage |-> "request", delay |-> 0]}
    /\ deletes = <<>>
    /\ topicRequests = 1
    /\ LearnTopicFlowInitial
    /\ flowCalls = <<>>
    /\ savedRoadmaps = {}
    /\ SchedulingModalInitial
    /\ schedCalls = <<>>
    /\ backendSettings = DefaultSettings
    /\ CheckOffInitial
    /\ walk = <<>>
    /\ backendRoadmap = OneLessonRoadmap
    /\ backendProgress = FreshProgress
    /\ view = "dashboard"
    /\ activeTopic = Null
    /\ currentLesson = NullObj
    /\ completions = <<>>
    /\ RoadmapViewInitial
    /\ LessonViewInitial
    /\ renderThrew = FALSE
    /\ lastEvent = Event("fetchTopics", NullObj)

FetchCalls ==
    [retryCount : 0..MaxRetries, loading : BOOLEAN, stage : {"request", "timer"},
     delay : {0, RetryDelayMs}]

\* what the network and the timers do to a pending fetchTopics call
FetchProgress ==
    \/ \E f \in FetchCalls, isArray \in BOOLEAN : fetchTopics_Succeeds(f, isArray)
    \/ \E f \in FetchCalls, kind \in FailureKinds : fetchTopics_Fails(f, kind)
    \/ \E f \in FetchCalls : RetryTimerFires(f)

NextTopics ==
    \/ FetchProgress
    \/ ClickRetry
    \/ \E topic \in TopicPool, confirmed \in BOOLEAN : handleDelete(topic, confirmed)
    \/ \E i \in 1..MaxDeletes : handleDelete_Succeeds(i)
    \/ \E i \in 1..MaxDeletes : handleDelete_Fails(i)

SpecTopics == InitTopics /\ [][NextTopics]_vars

\* every response arrives and every timer fires
SpecTopicsLive == SpecTopics /\ WF_vars(FetchProgress)

----------------------------------------------------------------------------
(* Topic deletion (checked under SpecTopics) *)

\* C14: when a delete request succeeds, the displayed list becomes the
\* displayed list without the deleted topic (the topic is removed, every
\* other topic stays, nothing else appears); when it fails, the list is
\* unchanged and an alert is shown; the delete-in-progress marker is
\* cleared in both cases.
C14_DeleteUpdatesList ==
    [][/\ lastEvent'.name = "topicDeleted" =>
            /\ topics' = FilterOut(topics, lastEvent'.arg.topic)
            /\ deleteLoading' = Null
       /\ lastEvent'.name = "alertDeleteFailed" =>
            /\ topics' = topics
            /\ deleteLoading' = Null]_vars

\* C15: a delete request is sent only by a confirmed handleDelete, for the
\* topic of the card; a declined one sends nothing and leaves the list and
\* the marker alone; a topic leaves the backend only by a delete request.
C15_DeleteNeedsConfirmation ==
    [][/\ (lastEvent'.name = "handleDelete" /\ ~lastEvent'.arg.confirmed) =>
            UNCHANGED <<topics, deleteLoading, deletes, backendTopics>>
       /\ Len(deletes') > Len(deletes) =>
            /\ lastEvent'.name = "handleDelete"
            /\ lastEvent'.arg.confirmed
            /\ deletes' = Append(deletes, deletes'[Len(deletes')])
            /\ deletes'[Len(deletes')].topic = lastEvent'.arg.topic
            /\ InList(topics, lastEvent'.arg.topic)
       /\ backendTopics' # backendTopics =>
            /\ lastEvent'.name = "topicDeleted"
            /\ \E i \in 1..Len(deletes) : backendTopics' = backendTopics \ {deletes[i].topic}]_vars

\* the deletion of one of two displayed topics was declined
C15_Witness ==
    /\ lastEvent.name = "handleDelete"
    /\ ~lastEvent.arg.confirmed
    /\ Len(topics) = 2
    /\ deletes = <<>>
    /\ deleteLoading = Null
    /\ backendTopics = TopicPool

----------------------------------------------------------------------------
(* The topic-list fetch (checked under SpecTopics and SpecTopicsLive) *)

\* C16: a fetch that fails because the backend is unreachable is followed
\* by one retry 2 seconds later, as long as fewer than 5 retries were made;
\* any other failure, and the failure of the fifth retry, schedules nothing
\* and shows the error; a request is sent only by a retry timer or by the
\* user's Retry, so at most 5 automatic retries follow the request of the
\* mount or of a click.
C16_BoundedRetry ==
    /\ [](/\ \A f \in fetches : f.retryCount <= 5 /\ (f.stage = "timer" => f.retryCount < 5)
          /\ topicRequests <= 1 + 5
          /\ Cardinality(fetches) <= 1)
    /\ [][/\ lastEvent'.name = "fetchTopicsFailed" =>
                LET f == lastEvent'.arg.call IN
                IF lastEvent'.arg.kind = "backend_down" /\ f.retryCount < 5
                THEN /\ fetches' = {[f EXCEPT !.stage = "timer", !.delay = 2000]}
                     /\ topicsError' = Null
                ELSE /\ fetches' = {}
                     /\ topicsError' = lastEvent'.arg.kind
                     /\ topics' = <<>>
          /\ lastEvent'.name = "retryTimer" =>
                /\ lastEvent'.arg.delay = 2000
                /\ topicRequests' = topicRequests + 1
                /\ \E f \in fetches' : f.retryCount = lastEvent'.arg.retryCount + 1
          /\ topicRequests' # topicRequests => lastEvent'.name \in {"retryTimer", "ClickRetry"}
          /\ (fetches = {} /\ fetches' # {}) => lastEvent'.name = "ClickRetry"]_vars

\* the fifth retry failed and nothing is pending
C16_Witness ==
    /\ lastEvent.name = "fetchTopicsFailed"
    /\ lastEvent.arg.kind = "backend_down"
    /\ lastEvent.arg.call.retryCount = 5
    /\ topicRequests = 6
    /\ fetches = {}
    /\ topicsError = "backend_down"

\* C17: once no fetchTopics call is pending, the loading flag is eventually
\* false.
C17_LoadingEventuallyCleared == (fetches = {}) ~> (~topicsLoading)

----------------------------------------------------------------------------
(* LearnTopicFlow.jsx: the topic-creation flow.  A button with a disabled     *)
(* attribute runs its handler only while it is enabled.  The text of a field  *)
(* is empty or one fixed text, the chosen files are counted.                  *)

TopicTexts == {"", TopicName[1]}
FocusTexts == {"", "focus"}
PrerequisiteName == <<"P1", "P2", "P3">>
PrerequisiteLists == {[i \in 1..n |-> PrerequisiteName[i]] : n \in 0..MaxPrerequisites}

\* planningResponse.data.roadmap: absent, or a roadmap object (empty or not)
PlanningResults == Roadmaps \cup {NullObj}

EmptyRoadmapMessage == "Error: Roadmap generation returned empty result. Please try again."
RequestFailedMessage == "Error: request failed"

OtherThanCreate == <<appVars, topicVars, schedVars, checkOffVars, walkVars>>

\* step 1: onChange={(e) => setTopic(e.target.value)}
setTopic(text) ==
    /\ step = 1
    /\ flowTopic' = text
    /\ lastEvent' = Event("setTopic", [text |-> text])
    /\ UNCHANGED <<step, flowLoading, flowError, focusArea, prerequisites,
                   knownPrerequisites, files, flowCalls, savedRoadmaps>>
    /\ UNCHANGED OtherThanCreate

\* step 1: Continue, disabled={!topic}
ContinueToFocusArea ==
    /\ step = 1
    /\ flowTopic # ""
    /\ step' = 2
    /\ lastEvent' = Event("ContinueToFocusArea", NullObj)
    /\ UNCHANGED <<flowLoading, flowError, flowTopic, focusArea, prerequisites,
                   knownPrerequisites, files, flowCalls, savedRoadmaps>>
    /\ UNCHANGED OtherThanCreate

\* step 2: onChange={(e) => setFocusArea(e.target.value)}
setFocusArea(text) ==
    /\ step = 2
    /\ focusArea' = text
    /\ lastEvent' = Event("setFocusArea", [text |-> text])
    /\ UNCHANGED <<step, flowLoading, flowError, flowTopic, prerequisites,
                   knownPrerequisites, files, flowCalls, savedRoadmaps>>
    /\ UNCHANGED OtherThanCreate

\* step 2: handleFetchPrerequisites up to its await, disabled={loading}
handleFetchPrerequisites ==
    /\ step = 2
    /\ ~flowLoading
    /\ IF flowTopic = "" \/ focusArea = ""
       THEN UNCHANGED <<flowLoading, flowError, flowCalls>>
       ELSE /\ flowLoading' = TRUE
            /\ flowError' = Null
            /\ flowCalls' = Append(flowCalls,
                    [kind |-> "prerequisites", stage |-> "prerequisites",
                     topic |-> flowTopic, focus_area |-> focusArea,
                     known |-> <<>>, unknown |-> <<>>, roadmap |-> NullObj])
    /\ lastEvent' = Event("handleFetchPrerequisites", NullObj)
    /\ UNCHANGED <<step, flowTopic, focusArea, prerequisites, knownPrerequisites, files,
                   savedRoadmaps>>
    /\ UNCHANGED OtherThanCreate

fetchPrerequisites_Succeeds(i, list) ==
    /\ i \in 1..Len(flowCalls)
    /\ flowCalls[i].stage = "prerequisites"
    /\ prerequisites' = list
    /\ step' = 3
    /\ flowLoading' = FALSE
    /\ flowCalls' = RemoveAt(flowCalls, i)
    /\ lastEvent' = Event("prerequisitesFetched", flowCalls[i])
    /\ UNCHANGED <<flowError, flowTopic, focusArea, knownPrerequisites, files, savedRoadmaps>>
    /\ UNCHANGED OtherThanCreate

fetchPrerequisites_Fails(i) ==
    /\ i \in 1..Len(flowCalls)
    /\ flowCalls[i].stage = "prerequisites"
    /\ flowError' = "request failed"
    /\ flowLoading' = FALSE
    /\ flowCalls' = RemoveAt(flowCalls, i)
    /\ lastEvent' = Event("prerequisitesFailed", flowCalls[i])
    /\ UNCHANGED <<step, flowTopic, focusArea, prerequisites, knownPrerequisites, files,
                   savedRoadmaps>>
    /\ UNCHANGED OtherThanCreate

\* step 3: Yes / No: setKnownPrerequisites({ ...knownPrerequisites, [idx]: known })
setKnownPrerequisite(idx, known) ==
    /\ step = 3
    /\ idx \in 0..(Len(prerequisites) - 1)
    /\ knownPrerequisites' = {e \in knownPrerequisites : e[1] # idx} \cup {<<idx, known>>}
    /\ lastEvent' = Event("setKnownPrerequisite", [idx |-> idx, known |-> known])
    /\ UNCHANGED <<step, flowLoading, flowError, flowTopic, focusArea, prerequisites, files,
                   flowCalls, savedRoadmaps>>
    /\ UNCHANGED OtherThanCreate

\* step 3: Next: Study Materials
NextToMaterials ==
    /\ step = 3
    /\ step' = 4
    /\ lastEvent' = Event("NextToMaterials", NullObj)
    /\ UNCHANGED <<flowLoading, flowError, flowTopic, focusArea, prerequisites,
                   knownPrerequisites, files, flowCalls, savedRoadmaps>>
    /\ UNCHANGED OtherThanCreate

\* step 4: handleFileUpload
handleFileUpload(n) ==
    /\ step = 4
    /\ files' = n
    /\ lastEvent' = Event("handleFileUpload", [files |-> n])
    /\ UNCHANGED <<step, flowLoading, flowError, flowTopic, focusArea, prerequisites,
                   knownPrerequisites, flowCalls, savedRoadmaps>>
    /\ UNCHANGED OtherThanCreate

\* the elements of seq at the 1-based positions pos, in order
ItemsAt(seq, pos) ==
    [k \in 1..Cardinality(pos) |->
        seq[CHOOSE i \in pos : Cardinality({j \in pos : j <= i}) = k]]

\* prerequisites.forEach: knownPrerequisites[idx] === true ? known : unknown
KnownItems(prs, kp) == ItemsAt(prs, {i \in 1..Len(prs) : <<i - 1, TRUE>> \in kp})
UnknownItems(prs, kp) == ItemsAt(prs, {i \in 1..Len(prs) : <<i - 1, TRUE>> \notin kp})

\* !roadmap || Object.keys(roadmap).length === 0
RoadmapMissing(r) == r = NullObj \/ Len(r.entries) = 0

\* step 4: handleSubmitAll up to its first await ("Skip Upload" and the
\* submit button, both disabled={loading}): the upload when files were
\* chosen, else the planning request
handleSubmitAll ==
    /\ step = 4
    /\ ~flowLoading
    /\ flowLoading' = TRUE
    /\ flowError' = Null
    /\ flowCalls' = Append(flowCalls,
            [kind |-> "submit", stage |-> IF files > 0 THEN "upload" ELSE "planning",
             topic |-> flowTopic, focus_area |-> focusArea,
             known |-> KnownItems(prerequisites, knownPrerequisites),
             unknown |-> UnknownItems(prerequisites, knownPrerequisites),
             roadmap |-> NullObj])
    /\ lastEvent' = Event("handleSubmitAll", NullObj)
    /\ UNCHANGED <<step, flowTopic, focusArea, prerequisites, knownPrerequisites, files,
                   savedRoadmaps>>
    /\ UNCHANGED OtherThanCreate

\* the upload succeeds: the planning request is sent
handleSubmitAll_Uploaded(i) ==
    /\ i \in 1..Len(flowCalls)
    /\ flowCalls[i].stage = "upload"
    /\ flowCalls' = [flowCalls EXCEPT ![i].stage = "planning"]
    /\ lastEvent' = Event("materialsUploaded", flowCalls[i])
    /\ UNCHANGED <<step, flowLoading, flowError, flowTopic, focusArea, prerequisites,
                   knownPrerequisites, files, savedRoadmaps>>
    /\ UNCHANGED OtherThanCreate

\* the planning response saved whatever it holds
handleSubmitAll_Planned_NoValidation(i, r) ==
    /\ i \in 1..Len(flowCalls)
    /\ flowCalls[i].stage = "planning"
    /\ flowCalls' = [flowCalls EXCEPT ![i].stage = "save", ![i].roadmap = r]
    /\ UNCHANGED <<flowError, flowLoading>>
    /\ lastEvent' = Event("roadmapPlanned", [call |-> flowCalls[i], roadmap |-> r])
    /\ UNCHANGED <<step, flowTopic, focusArea, prerequisites, knownPrerequisites, files,
                   savedRoadmaps>>
    /\ UNCHANGED OtherThanCreate

\* the planning response arrives: an absent or empty roadmap throws (catch,
\* finally), any other is sent to POST /api/roadmaps
handleSubmitAll_Planned(i, r) ==
    /\ i \in 1..Len(flowCalls)
    /\ flowCalls[i].stage = "planning"
    /\ IF RoadmapMissing(r)
       THEN /\ flowError' = EmptyRoadmapMessage
            /\ flowLoading' = FALSE
            /\ flowCalls' = RemoveAt(flowCalls, i)
       ELSE /\ flowCalls' = [flowCalls EXCEPT ![i].stage = "save", ![i].roadmap = r]
            /\ UNCHANGED <<flowError, flowLoading>>
    /\ lastEvent' = Event("roadmapPlanned", [call |-> flowCalls[i], roadmap |-> r])
    /\ UNCHANGED <<step, flowTopic, focusArea, prerequisites, knownPrerequisites, files,
                   savedRoadmaps>>
    /\ UNCHANGED OtherThanCreate

\* the save succeeds: setStep(5), finally
handleSubmitAll_Saved(i) ==
    /\ i \in 1..Len(flowCalls)
    /\ flowCalls[i].stage = "save"
    /\ savedRoadmaps' = savedRoadmaps \cup
            {[topic |-> flowCalls[i].topic, roadmap |-> flowCalls[i].roadmap]}
    /\ step' = 5
    /\ flowLoading' = FALSE
    /\ flowCalls' = RemoveAt(flowCalls, i)
    /\ lastEvent' = Event("roadmapSaved", flowCalls[i])
    /\ UNCHANGED <<flowError, flowTopic, focusArea, prerequisites, knownPrerequisites, files>>
    /\ UNCHANGED OtherThanCreate

\* the upload, the planning request or the save fails: catch, finally
handleSubmitAll_RequestFails(i) ==
    /\ i \in 1..Len(flowCalls)
    /\ flowCalls[i].kind = "submit"
    /\ flowError' = RequestFailedMessage
    /\ flowLoading' = FALSE
    /\ flowCalls' = RemoveAt(flowCalls, i)
    /\ lastEvent' = Event("submitFailed", flowCalls[i])
    /\ UNCHANGED <<step, flowTopic, focusArea, prerequisites, knownPrerequisites, files,
                   savedRoadmaps>>
    /\ UNCHANGED OtherThanCreate

\* LearnTopicFlow right after its mount
InitCreate ==
    /\ LearnTopicFlowInitial
    /\ flowCalls = <<>>
    /\ savedRoadmaps = {}
    /\ SchedulingModalInitial
    /\ schedCalls = <<>>
    /\ backendSettings = DefaultSettings
    /\ CheckOffInitial
    /\ walk = <<>>
    /\ TopicDashboardInitial
    /\ fetches = {}
    /\ deletes = <<>>
    /\ topicRequests = 0
    /\ backendTopics = {}
    /\ backendRoadmap = OneLessonRoadmap
    /\ backendProgress = FreshProgress
    /\ view = "create"
    /\ activeTopic = Null
    /\ currentLesson = NullObj
    /\ completions = <<>>
    /\ RoadmapViewInitial
    /\ LessonViewInitial
    /\ renderThrew = FALSE
    /\ lastEvent = Event("handleNewTopic", NullObj)

NextCreate ==
    \/ \E text \in TopicTexts : setTopic(text)
    \/ ContinueToFocusArea
    \/ \E text \in FocusTexts : setFocusArea(text)
    \/ handleFetchPrerequisites
    \/ \E list \in PrerequisiteLists : fetchPrerequisites_Succeeds(1, list)
    \/ fetchPrerequisites_Fails(1)
    \/ \E idx \in 0..(MaxPrerequisites - 1), known \in BOOLEAN : setKnownPrerequisite(idx, known)
    \/ NextToMaterials
    \/ \E n \in 0..MaxFiles : handleFileUpload(n)
    \/ handleSubmitAll
    \/ handleSubmitAll_Uploaded(1)
    \/ \E r \in PlanningResults : handleSubmitAll_Planned(1, r)
    \/ handleSubmitAll_Saved(1)
    \/ handleSubmitAll_RequestFails(1)

SpecCreate == InitCreate /\ [][NextCreate]_vars

----------------------------------------------------------------------------
(* Topic creation (checked under SpecCreate) *)

\* C19: when the planning response holds no roadmap or an empty one, no
\* request is pending afterwards (no save, no new attempt), the flow is at
\* step 4 with the error message and loading false, nothing was saved; and
\* a save is only ever sent for a non-empty roadmap.
C19_EmptyRoadmapHalts ==
    /\ [](\A i \in 1..Len(flowCalls) :
            flowCalls[i].stage = "save" => ~RoadmapMissing(flowCalls[i].roadmap))
    /\ [](\A sr \in savedRoadmaps : sr.roadmap # NullObj /\ Len(sr.roadmap.entries) > 0)
    /\ [][(lastEvent'.name = "roadmapPlanned"
            /\ (lastEvent'.arg.roadmap = NullObj \/ Len(lastEvent'.arg.roadmap.entries) = 0))
          => /\ flowCalls' = <<>>
             /\ step' = 4
             /\ flowError' # Null
             /\ flowLoading' = FALSE
             /\ savedRoadmaps' = savedRoadmaps]_vars
    /\ [][(flowError # Null /\ flowCalls = <<>> /\ flowCalls' # <<>>)
          => lastEvent'.name \in {"handleSubmitAll", "handleFetchPrerequisites"}]_vars

\* the planning response for a submission with a file held an empty roadmap
C19_Witness ==
    /\ lastEvent.name = "roadmapPlanned"
    /\ lastEvent.arg.roadmap # NullObj
    /\ Len(lastEvent.arg.roadmap.entries) = 0
    /\ files > 0
    /\ step = 4
    /\ flowError = EmptyRoadmapMessage
    /\ ~flowLoading
    /\ flowCalls = <<>>

----------------------------------------------------------------------------
(* SchedulingModal (RoadmapView.jsx), open: the scheduling settings.  The    *)
(* session list (fetchSessions) does not touch the settings and is left out. *)

TriggerTime == <<"00:00", "08:00", "20:00">>
TriggerTimes == {TriggerTime[i] : i \in 1..MaxTimes}
LastRuns == {Null, "run"}

Settings == [auto_schedule : BOOLEAN, trigger_time : TriggerTimes, last_run : LastRuns]

OtherThanSched == <<appVars, topicVars, createVars, checkOffVars, walkVars>>

SchedCall(kind, settings) == [kind |-> kind, settings |-> settings]

\* saveSettings showing the new value before the request has succeeded
saveSettings_Optimistic(newSettings) ==
    /\ saving' = TRUE
    /\ autoSettings' = newSettings
    /\ schedCalls' = Append(schedCalls, SchedCall("save", newSettings))
    /\ lastEvent' = Event("saveSettings", newSettings)
    /\ UNCHANGED <<scheduling, backendSettings>>
    /\ UNCHANGED OtherThanSched

\* saveSettings(newSettings) up to its await: setSaving(true), POST
saveSettings(newSettings) ==
    /\ saving' = TRUE
    /\ UNCHANGED autoSettings
    /\ schedCalls' = Append(schedCalls, SchedCall("save", newSettings))
    /\ lastEvent' = Event("saveSettings", newSettings)
    /\ UNCHANGED <<scheduling, backendSettings>>
    /\ UNCHANGED OtherThanSched

\* the auto-schedule switch, disabled={saving}
toggleAutoSchedule ==
    /\ ~saving
    /\ Len(schedCalls) < MaxSaves
    /\ saveSettings([autoSettings EXCEPT !.auto_schedule = ~autoSettings.auto_schedule])

\* the trigger-time input (never disabled)
changeTriggerTime(time) ==
    /\ Len(schedCalls) < MaxSaves
    /\ saveSettings([autoSettings EXCEPT !.trigger_time = time])

\* the save succeeds: setAutoSettings(newSettings), finally setSaving(false)
saveSettings_Succeeds(i) ==
    /\ i \in 1..Len(schedCalls)
    /\ schedCalls[i].kind = "save"
    /\ backendSettings' = schedCalls[i].settings
    /\ autoSettings' = schedCalls[i].settings
    /\ saving' = FALSE
    /\ schedCalls' = RemoveAt(schedCalls, i)
    /\ lastEvent' = Event("settingsSaved", schedCalls[i])
    /\ UNCHANGED scheduling
    /\ UNCHANGED OtherThanSched

\* the save fails: catch (console.error), finally setSaving(false)
saveSettings_Fails(i) ==
    /\ i \in 1..Len(schedCalls)
    /\ schedCalls[i].kind = "save"
    /\ saving' = FALSE
    /\ schedCalls' = RemoveAt(schedCalls, i)
    /\ lastEvent' = Event("settingsSaveFailed", schedCalls[i])
    /\ UNCHANGED <<autoSettings, scheduling, backendSettings>>
    /\ UNCHANGED OtherThanSched

\* fetchSettings returns: setAutoSettings(response.data), or the failure is
\* logged; a fetchSettings awaited by handleScheduleNow ends that handler
\* (finally setScheduling(false))
fetchSettings_Returns(i, ok) ==
    /\ i \in 1..Len(schedCalls)
    /\ schedCalls[i].kind \in {"fetchSettings", "refresh"}
    /\ autoSettings' = IF ok THEN backendSettings ELSE autoSettings
    /\ scheduling' = IF schedCalls[i].kind = "refresh" THEN FALSE ELSE scheduling
    /\ schedCalls' = RemoveAt(schedCalls, i)
    /\ lastEvent' = Event(IF ok THEN "settingsFetched" ELSE "settingsFetchFailed", schedCalls[i])
    /\ UNCHANGED <<saving, backendSettings>>
    /\ UNCHANGED OtherThanSched

\* "Schedule Sessions Now", disabled={scheduling}: POST /api/calendar/trigger-now
handleScheduleNow ==
    /\ ~scheduling
    /\ Len(schedCalls) < MaxSaves
    /\ scheduling' = TRUE
    /\ schedCalls' = Append(schedCalls, SchedCall("trigger", NullObj))
    /\ lastEvent' = Event("handleScheduleNow", NullObj)
    /\ UNCHANGED <<autoSettings, saving, backendSettings>>
    /\ UNCHANGED OtherThanSched

\* the trigger returns: on status success the settings are fetched again
\* (the backend may have recorded the run), otherwise the handler ends
handleScheduleNow_Returns(i, success, lastRun) ==
    /\ i \in 1..Len(schedCalls)
    /\ schedCalls[i].kind = "trigger"
    /\ IF success
       THEN /\ backendSettings' = [backendSettings EXCEPT !.last_run = lastRun]
            /\ schedCalls' = [schedCalls EXCEPT ![i].kind = "refresh"]
            /\ UNCHANGED scheduling
       ELSE /\ scheduling' = FALSE
            /\ schedCalls' = RemoveAt(schedCalls, i)
            /\ UNCHANGED backendSettings
    /\ lastEvent' = Event("triggerReturned", [success |-> success])
    /\ UNCHANGED <<autoSettings, saving>>
    /\ UNCHANGED OtherThanSched

\* SchedulingModal right after it was opened: the effect has called fetchSettings()
InitSched ==
    /\ SchedulingModalInitial
    /\ schedCalls = <<SchedCall("fetchSettings", NullObj)>>
    /\ backendSettings \in Settings
    /\ CheckOffInitial
    /\ walk = <<>>
    /\ LearnTopicFlowInitial
    /\ flowCalls = <<>>
    /\ savedRoadmaps = {}
    /\ TopicDashboardInitial
    /\ fetches = {}
    /\ deletes = <<>>
    /\ topicRequests = 0
    /\ backendTopics = {}
    /\ backendRoadmap = OneLessonRoadmap
    /\ backendProgress = FreshProgress
    /\ view = "roadmap"
    /\ activeTopic \in Topics
    /\ currentLesson = NullObj
    /\ completions = <<>>
    /\ RoadmapViewInitial
    /\ LessonViewInitial
    /\ renderThrew = FALSE
    /\ lastEvent = Event("fetchSettings", NullObj)

NextSched ==
    \/ toggleAutoSchedule
    \/ \E time \in TriggerTimes : changeTriggerTime(time)
    \/ \E i \in 1..MaxSaves : saveSettings_Succeeds(i)
    \/ \E i \in 1..MaxSaves : saveSettings_Fails(i)
    \/ \E i \in 1..MaxSaves, ok \in BOOLEAN : fetchSettings_Returns(i, ok)
    \/ handleScheduleNow
    \/ \E i \in 1..MaxSaves, success \in BOOLEAN, lastRun \in LastRuns :
            handleScheduleNow_Returns(i, success, lastRun)

SpecSched == InitSched /\ [][NextSched]_vars

----------------------------------------------------------------------------
(* Scheduling settings (checked under SpecSched) *)

\* C20: sending a save leaves the local settings as they are; when the save
\* succeeds they become the submitted value, when it fails they keep their
\* value; saving is false after either; the local settings change only by
\* a successful save or a fetch of the settings.
C20_SaveThenUpdate ==
    [][/\ lastEvent'.name = "saveSettings" =>
            /\ autoSettings' = autoSettings
            /\ saving'
            /\ schedCalls'[Len(schedCalls')].settings = lastEvent'.arg
       /\ lastEvent'.name = "settingsSaved" =>
            /\ autoSettings' = lastEvent'.arg.settings
            /\ ~saving'
       /\ lastEvent'.name = "settingsSaveFailed" =>
            /\ autoSettings' = autoSettings
            /\ ~saving'
       /\ autoSettings' # autoSettings =>
            lastEvent'.name \in {"settingsSaved", "settingsFetched"}]_vars

\* a save of a new trigger time failed after the switch had been saved
C20_Witness ==
    /\ lastEvent.name = "settingsSaveFailed"
    /\ lastEvent.arg.settings.trigger_time # autoSettings.trigger_time
    /\ autoSettings.auto_schedule # DefaultSettings.auto_schedule
    /\ backendSettings = autoSettings
    /\ ~saving
    /\ schedCalls = <<>>

----------------------------------------------------------------------------
(* Overall progress (checked under SpecUnlock) *)

\* C21: when the roadmap has no lesson at all, the overall percentage shown
\* is 0 whatever the progress record.
C21_ZeroLessonsZeroPercent ==
    (Rendered /\ lastEvent.arg # NullObj /\ Pairs(roadmap) = {}) =>
        lastEvent.arg.progressPercent = 0

----------------------------------------------------------------------------
(* Completion with chapters that have no lessons (checked under SpecComplete) *)

\* C25: the next pair of a completion request for a pair of the roadmap is
\* a pair of the roadmap.
C25_NextPairExists ==
    lastEvent.name = "postLessonComplete" =>
        (<<lastEvent.arg.current_chapter, lastEvent.arg.current_lesson>>
                \in Pairs(backendRoadmap)
            => /\ lastEvent.arg.next_lesson # Undefined
               /\ <<lastEvent.arg.next_chapter, lastEvent.arg.next_lesson>>
                    \in Pairs(backendRoadmap))

\* C27: view = roadmap implies an active topic, and view = lesson implies a
\* current lesson and an active topic.
C27_RouterInvariant ==
    /\ view = "roadmap" => activeTopic # Null
    /\ view = "lesson" => (currentLesson # NullObj /\ activeTopic # Null)

----------------------------------------------------------------------------
(* The question index (checked under SpecLesson) *)

\* C28: in quiz mode the current question index refers to a question of
\* the fetched content.
C28_IndexInRange ==
    (view = "lesson" /\ mode = "quiz" /\ content # NullObj) =>
        (0 <= currentQuestionIdx /\ currentQuestionIdx < Len(content.questions))

----------------------------------------------------------------------------
(* Concurrent deletions (checked under SpecTopics) *)

\* C26: a topic enters the displayed list only by a fetched topic list; in
\* particular a topic whose deletion succeeded does not come back by the
\* response of another delete request.
C26_DeletedStaysDeleted ==
    [][(\E t \in TopicPool : InList(topics', t) /\ ~InList(topics, t))
            => lastEvent'.name = "fetchTopicsSucceeded"]_vars

----------------------------------------------------------------------------
(* The focus area (checked under SpecCreate) *)

\* C30: at step 2 with a topic and an empty focus area, Check Prerequisites
\* sends the prerequisites request.
C30_FocusAreaOptional ==
    [][(lastEvent'.name = "handleFetchPrerequisites" /\ flowTopic # "" /\ focusArea = "")
            => /\ Len(flowCalls') = Len(flowCalls) + 1
               /\ flowCalls'[Len(flowCalls')].stage = "prerequisites"
               /\ flowLoading']_vars

----------------------------------------------------------------------------
(* Continue Journey pressed again: the button of the completed panel has no  *)
(* disabled attribute and handleLessonComplete no guard against a pending    *)
(* call, so a second call starts while the first is at an await              *)

handleFinishAgain ==
    /\ LessonShown /\ mode = "completed"
    /\ Len(completions) >= 1
    /\ Len(completions) < MaxPending
    /\ handleLessonComplete
    /\ UNCHANGED pageVars
    /\ lastEvent' = Event("handleFinish", NullObj)
    /\ UNCHANGED <<view, activeTopic, currentLesson>>
    /\ UNCHANGED <<roadmapVars, lessonVars, backendVars, renderThrew>>

NextRepeated ==
    \/ handleFinish
    \/ handleFinishAgain
    \/ handleBackToRoadmap
    \/ handleBackToDashboard
    \/ \E i \in 1..MaxPending : LessonComplete_RoadmapFetched(i)
    \/ \E i \in 1..MaxPending : LessonComplete_RoadmapFails(i)
    \/ \E i \in 1..MaxPending : LessonComplete_PostSucceeds(i)
    \/ \E i \in 1..MaxPending : LessonComplete_PostFails(i)

SpecRepeated == InitComplete /\ [][NextRepeated]_vars

\* C29: no two completion requests for the same lesson are pending.
C29_SingleCompletionRequest ==
    \A i, j \in 1..Len(completions) :
        (i # j /\ completions[i].stage = "post" /\ completions[j].stage = "post")
            => completions[i].lesson # completions[j].lesson

----------------------------------------------------------------------------
(* RoadmapView.jsx, check-off version: lessons are checked off by clicking, *)
(* the checks are kept per topic in localStorage                            *)

\* the template literal `${chapter}-${lesson}`
LessonKey(chapter, lesson) == chapter \o "-" \o lesson

\* completedLessons[key] is truthy
IsChecked(done, key) == <<key, TRUE>> \in done

\* {...prev, [key]: !prev[key]}: a key prev lacks reads as undefined and
\* becomes true, a key prev has is negated and stays a key
Toggled(prev, key) ==
    IF <<key, TRUE>> \in prev THEN (prev \ {<<key, TRUE>>}) \cup {<<key, FALSE>>}
    ELSE (prev \ {<<key, FALSE>>}) \cup {<<key, TRUE>>}

\* Object.keys(completedLessons).length
KeyCount(done) == Cardinality({e[1] : e \in done})

\* calculateChapterProgress, as the chapter header shows it: Math.round(progress)
calculateChapterProgress(done, chapter, lessons) ==
    LET lessonKeys == ObjectKeys(lessons) IN
    IF Len(lessonKeys) = 0 THEN 0
    ELSE LET completedCount ==
                Cardinality({i \in 1..Len(lessonKeys) :
                                IsChecked(done, LessonKey(chapter, lessonKeys[i]))})
         IN RoundPercent(completedCount, Len(lessonKeys))

\* the Progress card:
\* Math.round((Object.keys(completedLessons).length / Math.max(1, total)) * 100)
OverallProgress(rm, done) == RoundPercent(KeyCount(done), Max(1, TotalLessons(rm)))

\* what the render shows: nothing of the curriculum while loading, on error
\* or for an empty roadmap, else the stats cards and the chapter headers
CurriculumStats(rm, loading, error, done) ==
    IF loading \/ error \/ rm = NullObj \/ Len(rm.entries) = 0
    THEN NullObj
    ELSE [total |-> TotalLessons(rm),
          progress |-> OverallProgress(rm, done),
          chapters |-> [i \in 1..Len(rm.entries) |->
                          calculateChapterProgress(done, rm.entries[i].key,
                                                   rm.entries[i].value)]]

\* expandedChapters[chapter] is truthy
IsExpanded(expanded, chapter) == <<chapter, TRUE>> \in expanded

\* the roadmap request of the mount effect answers
CheckOff_fetchRoadmap_Succeeds ==
    /\ roadmapLoading
    /\ roadmap' = backendRoadmap
    /\ expandedChapters' =
          IF Len(ObjectKeys(backendRoadmap)) > 0
          THEN {<<At(ObjectKeys(backendRoadmap), 0), TRUE>>}
          ELSE expandedChapters
    /\ roadmapLoading' = FALSE
    /\ curriculumStats' = CurriculumStats(roadmap', FALSE, roadmapError, completedLessons)
    /\ lastEvent' = Event("fetchRoadmap", "ok")
    /\ UNCHANGED <<progress, roadmapError, lessonStatus, completedLessons>>
    /\ UNCHANGED <<lessonVars, dashVars, backendVars, renderThrew>>
    /\ UNCHANGED <<topicVars, createVars, schedVars, walkVars>>

\* the roadmap request fails
CheckOff_fetchRoadmap_Fails ==
    /\ roadmapLoading
    /\ roadmapError' = TRUE
    /\ roadmapLoading' = FALSE
    /\ curriculumStats' = CurriculumStats(roadmap, FALSE, TRUE, completedLessons)
    /\ lastEvent' = Event("fetchRoadmap", "failed")
    /\ UNCHANGED <<roadmap, progress, lessonStatus, expandedChapters, completedLessons>>
    /\ UNCHANGED <<lessonVars, dashVars, backendVars, renderThrew>>
    /\ UNCHANGED <<topicVars, createVars, schedVars, walkVars>>

\* a click on the header of a chapter the render shows
toggleChapter(chapter) ==
    /\ curriculumStats # NullObj
    /\ HasKey(roadmap, chapter)
    /\ expandedChapters' =
          (expandedChapters \ {<<chapter, TRUE>>, <<chapter, FALSE>>})
              \cup {<<chapter, ~IsExpanded(expandedChapters, chapter)>>}
    /\ lastEvent' = Event("toggleChapter", chapter)
    /\ UNCHANGED <<completedLessons, curriculumStats>>
    /\ UNCHANGED <<appVars, topicVars, createVars, schedVars, walkVars>>

\* a click on a lesson row (the rows of an expanded chapter are shown)
toggleLesson(chapter, lesson) ==
    /\ curriculumStats # NullObj
    /\ HasKey(roadmap, chapter) /\ HasKey(Get(roadmap, chapter), lesson)
    /\ IsExpanded(expandedChapters, chapter)
    /\ completedLessons' = Toggled(completedLessons, LessonKey(chapter, lesson))
    /\ curriculumStats' = CurriculumStats(roadmap, roadmapLoading, roadmapError,
                                          completedLessons')
    /\ lastEvent' = Event("toggleLesson", <<chapter, lesson>>)
    /\ UNCHANGED expandedChapters
    /\ UNCHANGED <<appVars, topicVars, createVars, schedVars, walkVars>>

\* the check-off view just mounted for a topic with nothing saved, its
\* roadmap request pending
InitCheckOff ==
    /\ RoadmapViewInitial
    /\ LessonViewInitial
    /\ view = "roadmap"
    /\ activeTopic \in Topics
    /\ currentLesson = NullObj
    /\ completions = <<>>
    /\ renderThrew = FALSE
    /\ backendRoadmap \in Roadmaps
    /\ backendProgress = NullObj
    /\ lastEvent = Event("init", NullObj)
    /\ PagesInitial

NextCheckOff ==
    \/ CheckOff_fetchRoadmap_Succeeds
    \/ CheckOff_fetchRoadmap_Fails
    \/ \E c \in ChapterPool : toggleChapter(c)
    \/ \E c \in ChapterPool, l \in LessonPool : toggleLesson(c, l)

SpecCheckOff == InitCheckOff /\ [][NextCheckOff]_vars

\* the lessons of the roadmap that are checked now
CheckedNow ==
    {p \in Pairs(roadmap) : IsChecked(completedLessons, LessonKey(p[1], p[2]))}

\* C22: in the check-off view the overall progress shown is the share of
\* the lessons checked off now (so that checking and then unchecking a
\* lesson brings it back to its value).
C22_OverallIsShareChecked ==
    curriculumStats # NullObj =>
        curriculumStats.progress =
            RoundPercent(Cardinality(CheckedNow), Max(1, TotalLessons(roadmap)))

----------------------------------------------------------------------------
(* A learner's walk: a lesson row is clicked, the lesson is finished, the   *)
(* completion is posted and applied, and the chapter list is shown again    *)
(* with the progress record fetched anew                                    *)

MaxWalk == 5

\* the lessons of a roadmap in the order the chapter list shows them
RoadmapOrder(rm) ==
    LET RECURSIVE Flat(_)
        Flat(n) ==
            IF n = 0 THEN <<>>
            ELSE Flat(n - 1) \o
                 [j \in 1..Len(rm.entries[n].value.entries) |->
                    <<rm.entries[n].key, rm.entries[n].value.entries[j].key>>]
    IN Flat(Len(rm.entries))

\* the progress record after the completion of a lesson went through
ProgressAfter(rm, pr, topic, chapter, lesson) ==
    BackendCompleteLesson(pr,
        CompleteBody(topic, [chapter |-> chapter, lesson |-> lesson], rm))

\* TakeLesson with every lesson row answering the click, locked or not
TakeLesson_AnyRow(chapter, lesson) ==
    /\ RoadmapMounted
    /\ Len(walk) < MaxWalk
    /\ <<chapter, lesson>> \in DOMAIN lessonStatus
    /\ progress' = ProgressAfter(roadmap, progress, activeTopic, chapter, lesson)
    /\ backendProgress' = progress'
    /\ lessonStatus' = RenderRows(roadmap, progress', roadmapLoading, roadmapError)
    /\ renderThrew' = RenderThrows(roadmap, progress', roadmapLoading, roadmapError)
    /\ walk' = Append(walk, <<chapter, lesson>>)
    /\ lastEvent' = Event("takeLesson", <<chapter, lesson>>)
    /\ UNCHANGED <<roadmap, roadmapLoading, roadmapError, backendRoadmap>>
    /\ UNCHANGED <<lessonVars, dashVars>>
    /\ UNCHANGED <<topicVars, createVars, schedVars, checkOffVars>>

\* an unlocked lesson row is clicked and the lesson is taken to its end
TakeLesson(chapter, lesson) ==
    /\ RoadmapMounted
    /\ Len(walk) < MaxWalk
    /\ <<chapter, lesson>> \in DOMAIN lessonStatus
    /\ lessonStatus[<<chapter, lesson>>].unlocked
    /\ progress' = ProgressAfter(roadmap, progress, activeTopic, chapter, lesson)
    /\ backendProgress' = progress'
    /\ lessonStatus' = RenderRows(roadmap, progress', roadmapLoading, roadmapError)
    /\ renderThrew' = RenderThrows(roadmap, progress', roadmapLoading, roadmapError)
    /\ walk' = Append(walk, <<chapter, lesson>>)
    /\ lastEvent' = Event("takeLesson", <<chapter, lesson>>)
    /\ UNCHANGED <<roadmap, roadmapLoading, roadmapError, backendRoadmap>>
    /\ UNCHANGED <<lessonVars, dashVars>>
    /\ UNCHANGED <<topicVars, createVars, schedVars, checkOffVars>>

\* the chapter list of a topic nothing was completed in
InitWalk ==
    /\ roadmap \in Roadmaps
    /\ progress = FreshProgress
    /\ roadmapLoading = FALSE
    /\ roadmapError = FALSE
    /\ lessonStatus = RenderRows(roadmap, progress, roadmapLoading, roadmapError)
    /\ LessonViewInitial
    /\ view = "roadmap"
    /\ activeTopic \in Topics
    /\ currentLesson = NullObj
    /\ completions = <<>>
    /\ renderThrew = RenderThrows(roadmap, progress, roadmapLoading, roadmapError)
    /\ backendRoadmap = roadmap
    /\ backendProgress = progress
    /\ lastEvent = Event("init", NullObj)
    /\ PagesInitial

NextWalk == \E c \in ChapterPool, l \in LessonPool : TakeLesson(c, l)

SpecWalk == InitWalk /\ [][NextWalk]_vars

\* the rows of lessons not completed that answer a click
NewLessonsUnlocked ==
    {p \in DOMAIN lessonStatus :
        lessonStatus[p].unlocked /\ ~lessonStatus[p].completed}

\* the rows of lessons not completed
NewLessons == {p \in DOMAIN lessonStatus : ~lessonStatus[p].completed}

EveryChapterHasLesson(rm) ==
    \A i \in 1..Len(rm.entries) : Len(rm.entries[i].value.entries) > 0

\* no lesson was taken twice: every lesson was new when it was taken
OnlyNewTaken == \A i, j \in 1..Len(walk) : walk[i] = walk[j] => i = j

\* C23: on a roadmap whose chapters all have a lesson, starting from an
\* empty progress record and taking only lessons not yet completed, the
\* lessons taken so far are the first lessons of the roadmap in its order,
\* exactly the next lesson of the roadmap is unlocked and not completed, and
\* once nothing new is unlocked every lesson is completed.
C23_WalkInRoadmapOrder ==
    (EveryChapterHasLesson(roadmap) /\ OnlyNewTaken) =>
        LET order == RoadmapOrder(roadmap) IN
        /\ Len(walk) <= Len(order)
        /\ walk = SubSeq(order, 1, Len(walk))
        /\ \A p \in DOMAIN lessonStatus :
              lessonStatus[p].completed <=> \E i \in 1..Len(walk) : walk[i] = p
        /\ Len(walk) < Len(order) => NewLessonsUnlocked = {order[Len(walk) + 1]}
        /\ Len(walk) = Len(order) => NewLessons = {}

\* a roadmap of two chapters of two lessons walked through to its end
C23_Witness ==
    /\ EveryChapterHasLesson(roadmap) /\ OnlyNewTaken
    /\ Len(roadmap.entries) = MaxChapters
    /\ Len(walk) = MaxChapters * MaxLessons
    /\ walk = RoadmapOrder(roadmap)
    /\ NewLessons = {}
    /\ lastEvent.name = "takeLesson"

\* C24: after lessons were completed, taken anew or again, a lesson not
\* completed is unlocked whenever the roadmap has a lesson not completed.
C24_NewLessonUnlocked ==
    (Len(walk) > 0 /\ NewLessons # {}) => NewLessonsUnlocked # {}

====
